---------------------------- MODULE Spec2Model ----------------------------
(***************************************************************************)
(* Adaptive crawl engine of pydpiper-shell.                                *)
(*                                                                         *)
(* The module holds one state machine per component, over one set of       *)
(* variables; a component's specification leaves the other components'     *)
(* variables at their initial values.                                      *)
(*                                                                         *)
(*   SpecFetch  PageFetcherService / PageFetcher: the concurrency gate,    *)
(*              AIMD control and the 429 circuit breaker.                  *)
(*   SpecFetchLive  the same without cancellation, under the fairness of   *)
(*              the event loop.                                            *)
(*   SpecPage   fetch_page as its caller sees it: what each call returns.  *)
(*   SpecRedirect  fetch_page and the URL it hands to follow_redirects.    *)
(*   SpecPool   AdaptiveWorkerManager over an asyncio.Queue with a generic *)
(*              work function, and the wait and cleanup of run().          *)
(*   SpecCrawl  the pool with _process_url as its work function: the       *)
(*              frontier, the visited set and the page cap.                *)
(*   SpecCrawlLive  the same for every page cap, 0 included, under the     *)
(*              fairness of the event loop.                                *)
(*   SpecLinks  _process_url from the return of fetch_page on, for one     *)
(*              URL: the request log, the save logic, _process_links.      *)
(*   SpecFlush  the write buffers: _flush_buffer, the periodic flusher and *)
(*              the final flush of run().                                  *)
(*   SpecRobots RobotsTxtService: can_fetch and the robots.txt cache.      *)
(*   SpecPropagate  PropagationGraph.propagate_statuses of the status      *)
(*              propagator service.                                        *)
(*   SpecXngine ExecuteEngine.execute_sequence of the shell, on one        *)
(*              parsed command line.                                       *)
(*   SpecBackoff  SpecFetch for a configured backoff above max_backoff.    *)
(*   SpecPause  SpecPool with the pause signal and its owner.              *)
(*   SpecSeed   the statuses that run() of the propagator service sets     *)
(*              from the request log and the page table.                   *)
(*   SpecChain  the GET of a redirecting URL and the loop that follows the *)
(*              redirects with HEAD requests, in both fetch services.      *)
(*                                                                         *)
(* Every coroutine runs on one asyncio event loop, so a step of the model  *)
(* is the code a task runs between two suspension points.  `async with     *)
(* lock` suspends only when the lock is taken; then the task queues and    *)
(* continues in a later step, when the lock is handed to it.               *)
(***************************************************************************)
EXTENDS Integers, Sequences, FiniteSets, TLC

(***************************************************************************)
(* Bounds of the model.                                                    *)
(***************************************************************************)
NFetchers == 2      \* tasks that call fetch_page concurrently
MaxFetches == 3     \* fetch_page calls in one behaviour
MaxCap == 4         \* largest configured session.concurrency
MaxThreshold == 2   \* largest configured session.429_threshold
NWorkers == 2       \* settings.concurrency: worker tasks of the pool
MaxItems == 3       \* items put on the queue of the generic pool
MaxPages == 2       \* largest configured settings.max_pages
MaxLinks == 2       \* links on one page
MaxRows == 3        \* rows appended to the write buffers
MaxFlushes == 2     \* periodic flushes in one behaviour
MaxNodes == 3       \* URLs of the small link graphs
MaxEdges == 3       \* links of the small link graphs
ChainLen == 47      \* URLs of the longest chain of links
MaxRuns == 2        \* calls of propagate_statuses on one graph
MaxCmds == 3        \* commands of one command line
MaxPauses == 2      \* times the owner of the pause signal clears or sets it
NChainUrls == 3     \* URLs of the site whose redirects are followed
MaxRedirects == 3   \* largest configured max_redirects
NSeedUrls == 2      \* URLs of the rows that seed the propagation
MaxSeedRows == 2    \* rows of the request log, and of the page table

VARIABLES
    \* ---- PageFetcherService ----
    max_concurrency_cap,        \* session.concurrency, the hard cap
    threshold_429,              \* session.429_threshold
    current_concurrency_limit,
    active_requests,
    smart_max_cap,
    failure_history,            \* sequence of crash points
    circuit_breaker,            \* asyncio.Event: TRUE = set = breaker closed
    consecutive_429,
    current_backoff,            \* in units of 1/BackoffScale second
    handling_429_lock,          \* asyncio.Lock of the trip routine: TRUE = locked
    cond_holder,                \* task holding the lock of _concurrency_condition
    cond_lock_waiters,          \* tasks queued for that lock, FIFO
    cond_waiters,               \* tasks inside _concurrency_condition.wait()
    fpc,                        \* fetcher -> where its fetch_page call stands
    fcancelled,                 \* fetcher -> its task has been cancelled
    trip_pc,                    \* the task that got past _handling_429_lock
    trip_pending,               \* _trigger_429_protection tasks created, not yet run
    fetches,                    \* fetch_page calls begun
    run_429,                    \* 429 responses since the last 200 response
    \* ---- AdaptiveWorkerManager, asyncio.Queue, AsyncCrawlController.run ----
    queue,                      \* the frontier: items put and not yet got
    unfinished_tasks,           \* Queue._unfinished_tasks
    queue_finished,             \* Queue._finished (an Event): TRUE = set
    join_woken,                 \* the wait of queue.join() has been woken
    stop_event,                 \* stop_crawl_event: TRUE = set
    max_pages_to_crawl,         \* settings.max_pages, NoLimit for None
    wpc,                        \* worker -> where its _worker_loop stands
    witem,                      \* worker -> the item it dequeued
    wcancel,                    \* worker -> cancel() was called on its task
    run_pc,                     \* where AsyncCrawlController.run stands
    enqueued,                   \* items ever put on the queue
    ended,                      \* items whose work function has ended
    \* ---- AsyncCrawlController: frontier and page count ----
    start_url,                  \* the project's start URL, as the user gave it
    visited,                    \* the set of URL strings already enqueued
    pages_crawled,
    put_log,                    \* every entry ever put on the frontier, in order
    respect_nofollow,           \* crawler.respect_nofollow
    internal,                   \* the internal links of the last _process_links call
    internal_links_buffer,      \* the Link records buffered for the links table
    requests_buffer,            \* the Request records buffered for the requests table
    \* ---- AsyncCrawlController: write buffers ----
    buffers,                    \* buffer name -> rows appended and not yet flushed
    skip_save,                  \* crawler.skip_save
    stored,                     \* buffer name -> rows handed to self.db.save and persisted
    flush_lock,                 \* "free" or the caller holding it
    flush_pc,                   \* caller -> where it stands
    flush_copy,                 \* caller -> buffer name -> data_copy of its _flush_buffer call
    save_pending,               \* caller -> buffers whose save task has not ended
    save_error,                 \* caller -> a save task of its call failed
    orphans,                    \* save tasks still running for the cancelled flusher
    flusher_cancel,             \* cancel() was called on the flusher task
    flush_returns,              \* caller -> _flush_buffer calls that returned normally
    rows_made,                  \* rows appended so far
    persist_failed              \* some save task of the run failed to persist its rows

fetchVars == <<max_concurrency_cap, threshold_429, current_concurrency_limit,
               active_requests, smart_max_cap, failure_history, circuit_breaker,
               consecutive_429, current_backoff, handling_429_lock,
               cond_holder, cond_lock_waiters, cond_waiters, fpc, fcancelled,
               trip_pc, trip_pending, fetches, run_429>>

poolVars == <<queue, unfinished_tasks, queue_finished, join_woken, stop_event,
              max_pages_to_crawl, wpc, witem, wcancel, run_pc, enqueued, ended>>

crawlVars == <<start_url, visited, pages_crawled, put_log, respect_nofollow, internal,
               internal_links_buffer, requests_buffer>>

flushVars == <<buffers, skip_save, stored, flush_lock, flush_pc, flush_copy,
               save_pending, save_error, orphans, flusher_cancel, flush_returns,
               rows_made, persist_failed>>

\* The pool variables that the write buffers' specification leaves alone.
poolQuiet == <<queue, unfinished_tasks, queue_finished, join_woken, max_pages_to_crawl,
               wpc, witem, wcancel, enqueued, ended>>

\* ---- RobotsTxtService ----
VARIABLES
    parser_cache,               \* origin -> the cached parser, NoParser when absent
    fetch_locks,                \* origin -> lock: [made, holder, waiters]
    robots_requests,            \* origin -> GET requests made for its robots.txt
    rpc,                        \* caller -> where its can_fetch call stands
    rurl,                       \* caller -> the URL it asks about
    rverdict,                   \* caller -> what can_fetch returned
    rparser,                    \* caller -> the parser _get_parser gave it
    rcancel                     \* caller -> cancel() was called on its task

robotsVars == <<parser_cache, fetch_locks, robots_requests, rpc, rurl, rverdict,
                rparser, rcancel>>

\* ---- PropagationGraph ----
VARIABLES
    graph,                      \* source URL -> set of target URLs
    seed,                       \* the statuses when run() has set them
    statuses,                   \* URL -> status code
    status_keys,                \* the keys of statuses, in insertion order
    prop_queue,                 \* queue of propagate_statuses
    in_queue,                   \* its in_queue set
    iterations,                 \* its iteration counter
    prop_pc,                    \* "built", "loop" or "returned"
    prop_runs,                  \* calls of propagate_statuses that returned
    first_statuses              \* statuses when the first call returned

propVars == <<graph, seed, statuses, status_keys, prop_queue, in_queue, iterations,
              prop_pc, prop_runs, first_statuses>>

\* ---- PageFetcher.fetch_page, as its caller sees it ----
VARIABLES
    self_url,                   \* PageFetcher.url, shared by every fetch_page call
    response_data,              \* fetcher -> response_data of its call, NoData for None
    chain_from,                 \* fetcher -> the initial_url its follow_redirects got
    fevent                      \* what the last step received, returned or raised

urlVars == <<self_url, chain_from>>
pageVars == <<urlVars, response_data, fevent>>

\* ---- ExecuteEngine.execute_sequence ----
VARIABLES
    commands,                   \* the list it was given: the name's kind and op_before
    last_exit,
    seq_i,                      \* i, counted from 1
    seg_j,                      \* j, counted from 1
    seg_k,                      \* place in commands of the next command of the segment
    xpc,                        \* "top" of the while loop, "segment" or "returned"
    ran,                        \* the commands that ran, with their exit codes
    exit_returned               \* the value execute_sequence returned

xngineVars == <<commands, last_exit, seq_i, seg_j, seg_k, xpc, ran, exit_returned>>

\* ---- AdaptiveWorkerManager: the pause signal ----
VARIABLES
    pause_event,                \* asyncio.Event: TRUE = set = workers may run
    pause_moves                 \* clear() and set() calls of its owner so far

pauseVars == <<pause_event, pause_moves>>

\* ---- fetch_page and follow_redirects on one redirecting URL ----
VARIABLES
    service,                    \* the class that runs: PageFetcher or HttpRequestService
    chain_site,                 \* URL -> what the server answers for it
    max_redirects,
    chain_pc,                   \* "get", "loop", "return" or "done"
    redirect_chain,
    chain_visited,              \* visited
    chain_url,                  \* current_url
    passes,                     \* passes of the for loop so far: HEAD requests sent
    head_status,                \* status of the last HEAD response, 0 before the first
    result_status               \* status, as the result has it

\* ---- RequestToLinkStatusPropagatorService.run: the seeding ----
VARIABLES
    requests_df,                \* the rows of the request log: url and status_code
    pages_df,                   \* the rows of the page table: url and status_code
    seed_pc                     \* "loaded", "requests" done, or "seeded"

seedVars == <<requests_df, pages_df, seed_pc>>

chainVars == <<service, chain_site, max_redirects, chain_pc, redirect_chain,
               chain_visited, chain_url, passes, head_status, result_status>>

vars == <<fetchVars, pageVars, poolVars, crawlVars, flushVars, robotsVars, propVars,
          xngineVars, pauseVars, chainVars, seedVars>>

\* What each component's specification leaves unchanged.
exceptPage == <<poolVars, crawlVars, flushVars, robotsVars, propVars,
                xngineVars, pauseVars, chainVars, seedVars>>
exceptFetch == <<pageVars, exceptPage>>
exceptPool == <<fetchVars, pageVars, crawlVars, flushVars, robotsVars, propVars,
                xngineVars, pauseVars, chainVars, seedVars>>
exceptCrawl == <<fetchVars, pageVars, flushVars, robotsVars, propVars,
                 xngineVars, pauseVars, chainVars, seedVars>>
exceptFlush == <<fetchVars, pageVars, crawlVars, poolQuiet, robotsVars, propVars,
                 xngineVars, pauseVars, chainVars, seedVars>>
exceptRobots == <<fetchVars, pageVars, poolVars, crawlVars, flushVars, propVars,
                  xngineVars, pauseVars, chainVars, seedVars>>
exceptPropagate == <<fetchVars, pageVars, poolVars, crawlVars, flushVars, robotsVars,
                     xngineVars, pauseVars, chainVars, seedVars>>
exceptXngine == <<fetchVars, pageVars, poolVars, crawlVars, flushVars, robotsVars,
                  propVars, pauseVars, chainVars, seedVars>>
exceptPause == <<fetchVars, pageVars, crawlVars, flushVars, robotsVars, propVars,
                 xngineVars, chainVars, seedVars>>
exceptChain == <<fetchVars, pageVars, poolVars, crawlVars, flushVars, robotsVars,
                 propVars, xngineVars, pauseVars, seedVars>>
exceptSeed == <<fetchVars, pageVars, poolVars, crawlVars, flushVars, robotsVars,
                xngineVars, pauseVars, chainVars>>

Fetchers == 1..NFetchers
TripTask == 0
NoTask == -1

\* The frontier holds a URL once, so concurrent fetch_page calls are for
\* different URLs: fetcher t fetches URL t.  NoPageUrl is None.
UrlOf(t) == t
NoPageUrl == 0
NoData == [got |-> "none", status |-> 0]
NoEvent == [task |-> NoTask, got |-> "none", returned |-> NoData, raised |-> FALSE]

\* The page variables after PageFetcher.__init__, and between calls.
PageOff ==
    /\ self_url = NoPageUrl
    /\ response_data = [t \in Fetchers |-> NoData]
    /\ chain_from = [t \in Fetchers |-> NoPageUrl]
    /\ fevent = NoEvent

Workers == 1..NWorkers
NoLimit == -1
NoItem == 0
NoUrl == [path |-> "none", frag |-> FALSE, long |-> FALSE]

Max(a, b) == IF a >= b THEN a ELSE b
Min(a, b) == IF a <= b THEN a ELSE b

RECURSIVE SumSeq(_)
SumSeq(s) == IF s = <<>> THEN 0 ELSE Head(s) + SumSeq(Tail(s))

RECURSIVE Pow10(_)
Pow10(n) == IF n = 0 THEN 1 ELSE 10 * Pow10(n - 1)

RemoveFrom(s, x) == SelectSeq(s, LAMBDA y : y # x)

(***************************************************************************)
(* current_backoff is a float that is multiplied by 1.5 and by 0.9; it is  *)
(* kept exactly as an integer number of 1/BackoffScale seconds, which has  *)
(* enough decimals for one multiplication per response, MaxFetches in all. *)
(***************************************************************************)
BackoffScale == Pow10(MaxFetches)
InitialBackoff == 3
MaxBackoff == 12
BackoffFloor == 2

MinSmartCap == 3
JitterBelow == 5

(***************************************************************************)
(* SpecFetch: the state after PageFetcherService.__init__, for every       *)
(* configured hard cap >= 1 and threshold >= 1.                            *)
(***************************************************************************)
\* `backoffs` are the configured values of session.current_backoff, in
\* seconds.
InitFetchWith(backoffs) ==
    /\ max_concurrency_cap \in 1..MaxCap
    /\ threshold_429 \in 1..MaxThreshold
    /\ current_concurrency_limit = max_concurrency_cap
    /\ active_requests = 0
    /\ smart_max_cap = max_concurrency_cap
    /\ failure_history = <<>>
    /\ circuit_breaker = TRUE
    /\ consecutive_429 = 0
    /\ current_backoff \in {b * BackoffScale : b \in backoffs}
    /\ handling_429_lock = FALSE
    /\ cond_holder = NoTask
    /\ cond_lock_waiters = <<>>
    /\ cond_waiters = <<>>
    /\ fpc = [t \in Fetchers |-> "idle"]
    /\ fcancelled = [t \in Fetchers |-> FALSE]
    /\ trip_pc = "idle"
    /\ trip_pending = 0
    /\ fetches = 0
    /\ run_429 = 0
    /\ PageOff

\* The default of session.current_backoff.
InitFetch == InitFetchWith({InitialBackoff})

\* session.current_backoff and session.max_backoff are read independently
\* of each other: the first may be configured above the second.
InitFetchAnyBackoff == InitFetchWith({InitialBackoff, MaxBackoff + 1})

(***************************************************************************)
(* The lock of _concurrency_condition (an asyncio.Lock: FIFO, no barging). *)
(* A release hands the lock to the first queued task, which goes on in a   *)
(* later step of its own.                                                  *)
(***************************************************************************)
LockFree == cond_holder = NoTask /\ cond_lock_waiters = <<>>

HandOver ==
    /\ cond_holder' = IF cond_lock_waiters = <<>> THEN NoTask ELSE Head(cond_lock_waiters)
    /\ cond_lock_waiters' = IF cond_lock_waiters = <<>> THEN <<>> ELSE Tail(cond_lock_waiters)

QueueForLock(t) ==
    /\ cond_lock_waiters' = Append(cond_lock_waiters, t)
    /\ UNCHANGED cond_holder

\* A task leaves the lock's queue, or gives back a lock it was handed, when
\* it is cancelled inside Lock.acquire().
LeaveLock(t) ==
    IF cond_holder = t
    THEN HandOver
    ELSE /\ cond_lock_waiters' = RemoveFrom(cond_lock_waiters, t)
         /\ UNCHANGED cond_holder

\* A release that wakes no waiter.
NotifyNobody(f) == f

\* Condition.notify(1) and Condition.notify_all(), as the new fpc.
NotifyOne(f) ==
    IF cond_waiters = <<>> THEN f ELSE [f EXCEPT ![Head(cond_waiters)] = "acq_notified"]

NotifyAll(f) ==
    [t \in Fetchers |->
        IF \E i \in 1..Len(cond_waiters) : cond_waiters[i] = t
        THEN "acq_notified" ELSE f[t]]

(***************************************************************************)
(* _acquire_slot                                                           *)
(***************************************************************************)
\* Variants of the loop condition with a plausible slip: one that admits a
\* caller at the limit, one that forgets the limit, one that forgets the
\* breaker.
GateClosedOffByOne ==
    (active_requests > current_concurrency_limit) \/ ~circuit_breaker

GateClosedIgnoringLimit == ~circuit_breaker

GateClosedIgnoringBreaker ==
    active_requests >= current_concurrency_limit

\* The condition of the while loop: the caller may not take a slot yet.
GateClosed ==
    (active_requests >= current_concurrency_limit) \/ ~circuit_breaker

\* One pass of the loop by task t, which holds the lock, up to its next
\* suspension or to the grant.
AcquireLoop(t) ==
    IF GateClosed
    THEN IF ~circuit_breaker
         THEN \* await self._circuit_breaker.wait(), the lock still held
              /\ fpc' = [fpc EXCEPT ![t] = "acq_breaker"]
              /\ cond_holder' = t
              /\ UNCHANGED <<cond_lock_waiters, cond_waiters, active_requests>>
         ELSE \* await self._concurrency_condition.wait(): releases the lock
              /\ fpc' = [fpc EXCEPT ![t] = "acq_cond"]
              /\ cond_waiters' = Append(cond_waiters, t)
              /\ HandOver
              /\ UNCHANGED active_requests
    ELSE \* the slot is taken; fetch_page sleeps before its GET when the
         \* limit is low, else it sends the GET at once
         /\ active_requests' = active_requests + 1
         /\ fpc' = [fpc EXCEPT ![t] =
                IF current_concurrency_limit < JitterBelow THEN "jitter" ELSE "flight"]
         /\ HandOver
         /\ UNCHANGED cond_waiters

\* `async with self._concurrency_condition` of _acquire_slot.
EnterAcquire(t) ==
    IF LockFree
    THEN AcquireLoop(t)
    ELSE /\ fpc' = [fpc EXCEPT ![t] = "acq_lock"]
         /\ QueueForLock(t)
         /\ UNCHANGED <<cond_waiters, active_requests>>

fetchRest == <<max_concurrency_cap, threshold_429, current_concurrency_limit,
               smart_max_cap, failure_history, circuit_breaker, consecutive_429,
               current_backoff, handling_429_lock, trip_pc, trip_pending, run_429>>

\* fetch_page is called and reaches _acquire_slot.
StartFetch(t) ==
    /\ fpc[t] = "idle"
    /\ fetches < MaxFetches
    /\ fetches' = fetches + 1
    /\ EnterAcquire(t)
    /\ UNCHANGED <<fetchRest, fcancelled>>

\* The lock is handed to a task queued in _acquire_slot.
AcquireLockGranted(t) ==
    /\ fpc[t] = "acq_lock"
    /\ cond_holder = t
    /\ AcquireLoop(t)
    /\ UNCHANGED <<fetchRest, fcancelled, fetches>>

\* The breaker event is set: the task waiting on it, with the lock, loops.
AcquireBreakerWake(t) ==
    /\ fpc[t] = "acq_breaker"
    /\ circuit_breaker
    /\ AcquireLoop(t)
    /\ UNCHANGED <<fetchRest, fcancelled, fetches>>

\* A notified task leaves Condition.wait(): it takes the lock again first.
AcquireNotified(t) ==
    /\ fpc[t] = "acq_notified"
    /\ EnterAcquire(t)
    /\ UNCHANGED <<fetchRest, fcancelled, fetches>>

(***************************************************************************)
(* AIMD control                                                            *)
(***************************************************************************)
\* A variant of the ceiling that is not bounded by the hard cap.
SmartCeilingUncapped(h) ==
    Max(MinSmartCap, SumSeq(h) \div Len(h))

\* A variant of the ceiling that applies the floor after the hard cap.
SmartCeilingFloorLast(h) ==
    Max(MinSmartCap, Min(SumSeq(h) \div Len(h), max_concurrency_cap))

\* A variant of the ceiling without the floor of 3.
SmartCeilingNoFloor(h) ==
    Min(SumSeq(h) \div Len(h), max_concurrency_cap)

\* _update_smart_ceiling: the ceiling for a history h that already holds the
\* new crash point.
SmartCeiling(h) ==
    LET avg_failure == SumSeq(h) \div Len(h)
        new_cap == Max(MinSmartCap, avg_failure)
        capped == Min(new_cap, max_concurrency_cap)
    IN  IF capped <= 0 THEN 1 ELSE capped

\* A variant of the halved limit without the floor of 1.
HalvedLimitNoFloor(limit, ceiling) ==
    Min(limit \div 2, ceiling)

\* _adjust_concurrency_down: the halved limit, under the new ceiling.
HalvedLimit(limit, ceiling) ==
    Min(Max(1, limit \div 2), ceiling)

\* The body of _adjust_concurrency_down, run with the lock held.
AdjustDown ==
    LET old_limit == current_concurrency_limit
        history == Append(failure_history, old_limit)
    IN  /\ failure_history' = history
        /\ smart_max_cap' = SmartCeiling(history)
        /\ current_concurrency_limit' = HalvedLimit(old_limit, SmartCeiling(history))

\* _adjust_concurrency_up: does the limit rise by one?  `lucky` is the
\* outcome of random.random() < up_damping_factor.
RaisesLimit(lucky) ==
    /\ active_requests >= current_concurrency_limit
    /\ current_concurrency_limit < smart_max_cap
    /\ lucky

\* current_backoff after a 200 and after a trip.
BackoffAfter200 == Max(BackoffFloor * BackoffScale, (current_backoff * 9) \div 10)
BackoffAfterTrip == Min((current_backoff * 3) \div 2, MaxBackoff * BackoffScale)

(***************************************************************************)
(* _release_slot, from the finally of fetch_page.  endpc is where the      *)
(* task stands when the call has returned.                                 *)
(***************************************************************************)
EndPc(t, cancelled) == IF cancelled THEN "ended" ELSE "idle"

\* The body of _release_slot, run with the lock held.
ReleaseBody(t, endpc) ==
    /\ active_requests' = active_requests - 1
    /\ fpc' = NotifyOne([fpc EXCEPT ![t] = endpc])
    /\ cond_waiters' = IF cond_waiters = <<>> THEN <<>> ELSE Tail(cond_waiters)
    /\ HandOver

EnterRelease(t, cancelled) ==
    IF LockFree
    THEN ReleaseBody(t, EndPc(t, cancelled))
    ELSE /\ fpc' = [fpc EXCEPT ![t] = "rel_lock"]
         /\ QueueForLock(t)
         /\ UNCHANGED <<cond_waiters, active_requests>>

ReleaseLockGranted(t) ==
    /\ fpc[t] = "rel_lock"
    /\ cond_holder = t
    /\ ReleaseBody(t, EndPc(t, fcancelled[t]))
    /\ UNCHANGED <<fetchRest, fcancelled, fetches>>

(***************************************************************************)
(* fetch_page between the grant and the finally                            *)
(***************************************************************************)
\* What session.get() comes back with.
Outcomes == {"200_html", "200_asset", "200_rejected", "429", "3xx", "503",
             "other_status", "client_error", "internal_error"}

\* Outcomes after which fetch_page awaits again before its finally: the
\* body is read (_read_content) or the redirects are followed.
Awaits(o) == o \in {"200_html", "3xx"}

\* The jitter sleep ends and the GET is sent.
SendGet(t) ==
    /\ fpc[t] = "jitter"
    /\ fpc' = [fpc EXCEPT ![t] = "flight"]
    /\ UNCHANGED <<fetchRest, fcancelled, fetches, cond_holder, cond_lock_waiters,
                   cond_waiters, active_requests>>

Respond(t, o, lucky) ==
    /\ fpc[t] = "flight"
    /\ IF o = "429"
       THEN \* asyncio.create_task(self._trigger_429_protection())
            /\ trip_pending' = trip_pending + 1
            /\ run_429' = run_429 + 1
            /\ UNCHANGED <<current_concurrency_limit, current_backoff, consecutive_429>>
       ELSE IF o \in {"200_html", "200_asset", "200_rejected"}
       THEN /\ current_concurrency_limit' =
                    IF RaisesLimit(lucky) THEN current_concurrency_limit + 1
                    ELSE current_concurrency_limit
            /\ current_backoff' = BackoffAfter200
            /\ consecutive_429' = 0
            /\ run_429' = 0
            /\ UNCHANGED trip_pending
       ELSE UNCHANGED <<trip_pending, current_concurrency_limit, current_backoff,
                        consecutive_429, run_429>>
    /\ IF Awaits(o)
       THEN /\ fpc' = [fpc EXCEPT ![t] = IF o = "3xx" THEN "redirect" ELSE "body"]
            /\ UNCHANGED <<cond_holder, cond_lock_waiters, cond_waiters, active_requests>>
       ELSE EnterRelease(t, FALSE)
    /\ UNCHANGED <<max_concurrency_cap, threshold_429, smart_max_cap, failure_history,
                   circuit_breaker, handling_429_lock, trip_pc, fcancelled, fetches>>

\* The body has been read: the finally runs.
BodyDone(t) ==
    /\ fpc[t] = "body"
    /\ EnterRelease(t, FALSE)
    /\ UNCHANGED <<fetchRest, fcancelled, fetches>>

\* follow_redirects, one pass of its loop: with the breaker open the task
\* waits for it; then the HEAD is sent.
SendHead(t) ==
    /\ fpc[t] = "redirect"
    /\ circuit_breaker
    /\ fpc' = [fpc EXCEPT ![t] = "head"]
    /\ UNCHANGED <<fetchRest, fcancelled, fetches, cond_holder, cond_lock_waiters,
                   cond_waiters, active_requests>>

\* What session.head() comes back with: a 429, a redirect that the loop
\* follows, or anything that ends the loop (another status, a redirect
\* loop, the last of max_redirects, a client error).
HeadOutcomes == {"429", "3xx_next", "last"}

HeadRespond(t, o) ==
    /\ fpc[t] = "head"
    /\ IF o = "429"
       THEN /\ trip_pending' = trip_pending + 1
            /\ run_429' = run_429 + 1
       ELSE UNCHANGED <<trip_pending, run_429>>
    /\ IF o = "3xx_next"
       THEN /\ fpc' = [fpc EXCEPT ![t] = "redirect"]
            /\ UNCHANGED <<cond_holder, cond_lock_waiters, cond_waiters, active_requests>>
       ELSE EnterRelease(t, FALSE)
    /\ UNCHANGED <<max_concurrency_cap, threshold_429, current_concurrency_limit,
                   smart_max_cap, failure_history, circuit_breaker, consecutive_429,
                   current_backoff, handling_429_lock, trip_pc, fcancelled, fetches>>

(***************************************************************************)
(* Cancellation of the task that runs fetch_page (a worker of the pool):   *)
(* CancelledError is raised at the await where the task is suspended.  A   *)
(* task is cancelled once.                                                 *)
(***************************************************************************)
Cancel(t) ==
    /\ ~fcancelled[t]
    /\ fpc[t] \in {"acq_lock", "acq_breaker", "acq_cond", "acq_notified",
                    "jitter", "flight", "body", "redirect", "head", "rel_lock"}
    /\ fcancelled' = [fcancelled EXCEPT ![t] = TRUE]
    /\ CASE fpc[t] \in {"acq_lock", "acq_breaker"} ->
                \* raised inside `async with`: the lock is given back or the
                \* queue left; no slot was taken
                /\ fpc' = [fpc EXCEPT ![t] = "ended"]
                /\ LeaveLock(t)
                /\ UNCHANGED <<cond_waiters, active_requests>>
         [] fpc[t] \in {"acq_cond", "acq_notified"} ->
                \* Condition.wait() takes the lock again before it raises
                /\ cond_waiters' = RemoveFrom(cond_waiters, t)
                /\ IF LockFree
                   THEN /\ fpc' = [fpc EXCEPT ![t] = "ended"]
                        /\ UNCHANGED <<cond_holder, cond_lock_waiters>>
                   ELSE /\ fpc' = [fpc EXCEPT ![t] = "acq_relock"]
                        /\ QueueForLock(t)
                /\ UNCHANGED active_requests
         [] fpc[t] \in {"jitter", "flight", "body", "redirect", "head"} ->
                \* the finally of fetch_page
                EnterRelease(t, TRUE)
         [] fpc[t] = "rel_lock" ->
                \* raised inside the `async with` of _release_slot, before
                \* its body
                /\ fpc' = [fpc EXCEPT ![t] = "ended"]
                /\ LeaveLock(t)
                /\ UNCHANGED <<cond_waiters, active_requests>>
    /\ UNCHANGED <<fetchRest, fetches>>

\* A task cancelled in Condition.wait() gets the lock back and raises.
CancelledRelock(t) ==
    /\ fpc[t] = "acq_relock"
    /\ cond_holder = t
    /\ fpc' = [fpc EXCEPT ![t] = "ended"]
    /\ HandOver
    /\ UNCHANGED <<fetchRest, fcancelled, fetches, cond_waiters, active_requests>>

(***************************************************************************)
(* _trigger_429_protection, one task per 429 response                      *)
(***************************************************************************)
tripRest == <<max_concurrency_cap, threshold_429, fcancelled, fetches, run_429>>

\* After _adjust_concurrency_down has returned: count the 429 and, at the
\* threshold, open the breaker and go to sleep.
TripCount ==
    /\ consecutive_429' = consecutive_429 + 1
    /\ IF consecutive_429 + 1 >= threshold_429
       THEN /\ circuit_breaker' = FALSE
            /\ current_backoff' = BackoffAfterTrip
            /\ trip_pc' = "sleep"
            /\ handling_429_lock' = TRUE
       ELSE /\ trip_pc' = "idle"
            /\ handling_429_lock' = FALSE
            /\ UNCHANGED <<circuit_breaker, current_backoff>>

\* The two tests at the head of _trigger_429_protection: the lock of the
\* routine is taken, or (with the lock in hand) the breaker is open.
TripReturnsAtOnceBreakerOnly == ~circuit_breaker

TripReturnsAtOnce == handling_429_lock \/ ~circuit_breaker

\* A created task runs: it returns at once when a trip is in progress or
\* the breaker is open, else it takes _handling_429_lock and lowers the
\* limit (waiting for the condition's lock when it is taken).
TripStart ==
    /\ trip_pending > 0
    /\ trip_pending' = trip_pending - 1
    /\ IF TripReturnsAtOnce
       THEN UNCHANGED <<current_concurrency_limit, smart_max_cap, failure_history,
                        circuit_breaker, consecutive_429, current_backoff,
                        handling_429_lock, trip_pc, cond_holder, cond_lock_waiters>>
       ELSE IF LockFree
       THEN /\ AdjustDown
            /\ TripCount
            /\ UNCHANGED <<cond_holder, cond_lock_waiters>>
       ELSE /\ handling_429_lock' = TRUE
            /\ trip_pc' = "down_lock"
            /\ QueueForLock(TripTask)
            /\ UNCHANGED <<current_concurrency_limit, smart_max_cap, failure_history,
                           circuit_breaker, consecutive_429, current_backoff>>
    /\ UNCHANGED <<tripRest, active_requests, cond_waiters, fpc>>

\* The lock is handed to the trip task queued in _adjust_concurrency_down.
TripDownGranted ==
    /\ trip_pc = "down_lock"
    /\ cond_holder = TripTask
    /\ AdjustDown
    /\ HandOver
    /\ TripCount
    /\ UNCHANGED <<tripRest, active_requests, cond_waiters, fpc, trip_pending>>

\* The backoff sleep ends: the counter is reset, the breaker closed, and
\* every task in Condition.wait() notified (under the condition's lock).
TripWake ==
    /\ trip_pc = "sleep"
    /\ consecutive_429' = 0
    /\ circuit_breaker' = TRUE
    /\ IF LockFree
       THEN /\ fpc' = NotifyAll(fpc)
            /\ cond_waiters' = <<>>
            /\ trip_pc' = "idle"
            /\ handling_429_lock' = FALSE
            /\ UNCHANGED <<cond_holder, cond_lock_waiters>>
       ELSE /\ trip_pc' = "notify_lock"
            /\ QueueForLock(TripTask)
            /\ UNCHANGED <<fpc, cond_waiters, handling_429_lock>>
    /\ UNCHANGED <<tripRest, active_requests, current_concurrency_limit, smart_max_cap,
                   failure_history, current_backoff, trip_pending>>

TripNotifyGranted ==
    /\ trip_pc = "notify_lock"
    /\ cond_holder = TripTask
    /\ fpc' = NotifyAll(fpc)
    /\ cond_waiters' = <<>>
    /\ HandOver
    /\ trip_pc' = "idle"
    /\ handling_429_lock' = FALSE
    /\ UNCHANGED <<tripRest, active_requests, current_concurrency_limit, smart_max_cap,
                   failure_history, current_backoff, trip_pending, circuit_breaker,
                   consecutive_429>>

NextFetch ==
    \/ (\E t \in Fetchers : StartFetch(t)) /\ UNCHANGED exceptFetch
    \/ (\E t \in Fetchers : AcquireLockGranted(t)) /\ UNCHANGED exceptFetch
    \/ (\E t \in Fetchers : AcquireBreakerWake(t)) /\ UNCHANGED exceptFetch
    \/ (\E t \in Fetchers : AcquireNotified(t)) /\ UNCHANGED exceptFetch
    \/ (\E t \in Fetchers, o \in Outcomes, lucky \in BOOLEAN : Respond(t, o, lucky)) /\ UNCHANGED exceptFetch
    \/ (\E t \in Fetchers : SendGet(t)) /\ UNCHANGED exceptFetch
    \/ (\E t \in Fetchers : BodyDone(t)) /\ UNCHANGED exceptFetch
    \/ (\E t \in Fetchers : SendHead(t)) /\ UNCHANGED exceptFetch
    \/ (\E t \in Fetchers, o \in HeadOutcomes : HeadRespond(t, o)) /\ UNCHANGED exceptFetch
    \/ (\E t \in Fetchers : ReleaseLockGranted(t)) /\ UNCHANGED exceptFetch
    \/ (\E t \in Fetchers : Cancel(t)) /\ UNCHANGED exceptFetch
    \/ (\E t \in Fetchers : CancelledRelock(t)) /\ UNCHANGED exceptFetch
    \/ TripStart /\ UNCHANGED exceptFetch
    \/ TripDownGranted /\ UNCHANGED exceptFetch
    \/ TripWake /\ UNCHANGED exceptFetch
    \/ TripNotifyGranted /\ UNCHANGED exceptFetch

(***************************************************************************)
(* The fetch service when no task is cancelled and every task that can go  *)
(* on does: a request in flight is answered, a sleep ends, a lock that is  *)
(* handed over is taken.  follow_redirects makes at most max_redirects     *)
(* passes, so the HEAD that ends its loop comes.                           *)
(***************************************************************************)
NextFetchLive ==
    \/ (\E t \in Fetchers : StartFetch(t)) /\ UNCHANGED exceptFetch
    \/ (\E t \in Fetchers : AcquireLockGranted(t)) /\ UNCHANGED exceptFetch
    \/ (\E t \in Fetchers : AcquireBreakerWake(t)) /\ UNCHANGED exceptFetch
    \/ (\E t \in Fetchers : AcquireNotified(t)) /\ UNCHANGED exceptFetch
    \/ (\E t \in Fetchers, o \in Outcomes, lucky \in BOOLEAN : Respond(t, o, lucky)) /\ UNCHANGED exceptFetch
    \/ (\E t \in Fetchers : SendGet(t)) /\ UNCHANGED exceptFetch
    \/ (\E t \in Fetchers : BodyDone(t)) /\ UNCHANGED exceptFetch
    \/ (\E t \in Fetchers : SendHead(t)) /\ UNCHANGED exceptFetch
    \/ (\E t \in Fetchers, o \in HeadOutcomes : HeadRespond(t, o)) /\ UNCHANGED exceptFetch
    \/ (\E t \in Fetchers : ReleaseLockGranted(t)) /\ UNCHANGED exceptFetch
    \/ TripStart /\ UNCHANGED exceptFetch
    \/ TripDownGranted /\ UNCHANGED exceptFetch
    \/ TripWake /\ UNCHANGED exceptFetch
    \/ TripNotifyGranted /\ UNCHANGED exceptFetch

\* The steps of task t that the event loop takes when they can be taken.
FetchGoesOn(t) ==
    \/ AcquireLockGranted(t)
    \/ AcquireBreakerWake(t)
    \/ AcquireNotified(t)
    \/ SendGet(t)
    \/ \E o \in Outcomes, lucky \in BOOLEAN : Respond(t, o, lucky)
    \/ BodyDone(t)
    \/ SendHead(t)
    \/ \E o \in HeadOutcomes : HeadRespond(t, o)
    \/ ReleaseLockGranted(t)

TripGoesOn == TripStart \/ TripDownGranted \/ TripWake \/ TripNotifyGranted

FetchFairness ==
    /\ \A t \in Fetchers : WF_vars(FetchGoesOn(t) /\ UNCHANGED exceptFetch)
    /\ \A t \in Fetchers : SF_vars(HeadRespond(t, "last") /\ UNCHANGED exceptFetch)
    /\ WF_vars(TripGoesOn /\ UNCHANGED exceptFetch)

(***************************************************************************)
(* SpecPage: fetch_page as its caller sees it.  The steps are those of the *)
(* fetch service; each also follows the response_data of the call and      *)
(* notes in fevent what the step received from the server and what it gave *)
(* to the caller.                                                          *)
(***************************************************************************)
\* A variant that takes a 200 of an unsupported type for an ordinary 200.
ResponseStatusLenient(o) ==
    CASE o \in {"200_html", "200_asset", "200_rejected"} -> 200
      [] o = "429" -> 429
      [] o = "3xx" -> 301
      [] o = "503" -> 503
      [] o = "other_status" -> 404
      [] o = "client_error" -> -1
      [] OTHER -> -2

\* response_data["status"] for what session.get() came back with: the
\* status of the response, -10 for a 200 of an unsupported content type,
\* -1 from the except clause of ClientError and TimeoutError, -2 from the
\* except clause of Exception.
ResponseStatus(o) ==
    CASE o \in {"200_html", "200_asset"} -> 200
      [] o = "200_rejected" -> -10
      [] o = "429" -> 429
      [] o = "3xx" -> 301
      [] o = "503" -> 503
      [] o = "other_status" -> 404
      [] o = "client_error" -> -1
      [] OTHER -> -2

\* What reading the body ends with: the text, a read timeout (caught in
\* _read_content, the content stays None), or an error raised to fetch_page.
BodyOutcomes == {"200_html", "200_read_timeout", "client_error", "internal_error"}

BodyStatus(b) ==
    CASE b \in {"200_html", "200_read_timeout"} -> 200
      [] b = "client_error" -> -1
      [] OTHER -> -2

\* The call of task t goes on with response_data = data: it has returned
\* (the task is idle again), raised (the task has ended) or is still in
\* its finally.  `got` is what the step received from the server.
Deliver(t, data, got) ==
    LET returns == fpc'[t] = "idle"
        raises == fpc'[t] = "ended"
    IN  /\ response_data' =
                [response_data EXCEPT ![t] = IF returns \/ raises THEN NoData ELSE data]
        /\ fevent' = [task |-> t, got |-> got,
                      returned |-> IF returns THEN data ELSE NoData,
                      raised |-> raises]
        /\ UNCHANGED urlVars

\* A step of the service that neither receives nor returns anything.
PageQuiet ==
    /\ fevent' = NoEvent
    /\ UNCHANGED <<response_data, urlVars>>

\* The GET is answered.
PageRespond(t, o, lucky) ==
    /\ Respond(t, o, lucky)
    /\ Deliver(t, IF Awaits(o) THEN NoData ELSE [got |-> o, status |-> ResponseStatus(o)], o)

PageBodyDone(t, b) ==
    /\ BodyDone(t)
    /\ Deliver(t, [got |-> b, status |-> BodyStatus(b)], "none")

PageHeadRespond(t, o) ==
    /\ HeadRespond(t, o)
    /\ IF o = "3xx_next"
       THEN PageQuiet
       ELSE Deliver(t, [got |-> "3xx", status |-> ResponseStatus("3xx")], "none")

\* The finally of fetch_page gets the lock of _release_slot, or the task
\* is cancelled: the call returns response_data or raises CancelledError.
PageReleaseLockGranted(t) ==
    /\ ReleaseLockGranted(t)
    /\ Deliver(t, response_data[t], "none")

PageCancel(t) ==
    /\ Cancel(t)
    /\ Deliver(t, response_data[t], "none")

PageCancelledRelock(t) ==
    /\ CancelledRelock(t)
    /\ Deliver(t, response_data[t], "none")

NextPage ==
    \/ (\E t \in Fetchers : StartFetch(t)) /\ PageQuiet /\ UNCHANGED exceptPage
    \/ (\E t \in Fetchers : AcquireLockGranted(t)) /\ PageQuiet /\ UNCHANGED exceptPage
    \/ (\E t \in Fetchers : AcquireBreakerWake(t)) /\ PageQuiet /\ UNCHANGED exceptPage
    \/ (\E t \in Fetchers : AcquireNotified(t)) /\ PageQuiet /\ UNCHANGED exceptPage
    \/ (\E t \in Fetchers, o \in Outcomes, lucky \in BOOLEAN : PageRespond(t, o, lucky)) /\ UNCHANGED exceptPage
    \/ (\E t \in Fetchers : SendGet(t)) /\ PageQuiet /\ UNCHANGED exceptPage
    \/ (\E t \in Fetchers, b \in BodyOutcomes : PageBodyDone(t, b)) /\ UNCHANGED exceptPage
    \/ (\E t \in Fetchers : SendHead(t)) /\ PageQuiet /\ UNCHANGED exceptPage
    \/ (\E t \in Fetchers, o \in HeadOutcomes : PageHeadRespond(t, o)) /\ UNCHANGED exceptPage
    \/ (\E t \in Fetchers : PageReleaseLockGranted(t)) /\ UNCHANGED exceptPage
    \/ (\E t \in Fetchers : PageCancel(t)) /\ UNCHANGED exceptPage
    \/ (\E t \in Fetchers : PageCancelledRelock(t)) /\ UNCHANGED exceptPage
    \/ TripStart /\ PageQuiet /\ UNCHANGED exceptPage
    \/ TripDownGranted /\ PageQuiet /\ UNCHANGED exceptPage
    \/ TripWake /\ PageQuiet /\ UNCHANGED exceptPage
    \/ TripNotifyGranted /\ PageQuiet /\ UNCHANGED exceptPage

(***************************************************************************)
(* SpecRedirect: the same steps, following self.url, which every           *)
(* fetch_page call on the one PageFetcher sets, and the URL that each call *)
(* hands to follow_redirects.                                              *)
(***************************************************************************)
UrlsKept == UNCHANGED <<urlVars, response_data, fevent>>

\* fetch_page(url_to_fetch) is called: self.url = url_to_fetch.
RedirectStart(t) ==
    /\ StartFetch(t)
    /\ self_url' = UrlOf(t)
    /\ UNCHANGED <<chain_from, response_data, fevent>>

\* The GET is answered; on a 3xx follow_redirects(self.url) is called.
RedirectRespond(t, o, lucky) ==
    /\ Respond(t, o, lucky)
    /\ chain_from' = [chain_from EXCEPT ![t] = IF o = "3xx" THEN self_url ELSE NoPageUrl]
    /\ UNCHANGED <<self_url, response_data, fevent>>

NextRedirect ==
    \/ (\E t \in Fetchers : RedirectStart(t)) /\ UNCHANGED exceptPage
    \/ (\E t \in Fetchers : AcquireLockGranted(t)) /\ UrlsKept /\ UNCHANGED exceptPage
    \/ (\E t \in Fetchers : AcquireBreakerWake(t)) /\ UrlsKept /\ UNCHANGED exceptPage
    \/ (\E t \in Fetchers : AcquireNotified(t)) /\ UrlsKept /\ UNCHANGED exceptPage
    \/ (\E t \in Fetchers, o \in Outcomes, lucky \in BOOLEAN : RedirectRespond(t, o, lucky)) /\ UNCHANGED exceptPage
    \/ (\E t \in Fetchers : SendGet(t)) /\ UrlsKept /\ UNCHANGED exceptPage
    \/ (\E t \in Fetchers : BodyDone(t)) /\ UrlsKept /\ UNCHANGED exceptPage
    \/ (\E t \in Fetchers : SendHead(t)) /\ UrlsKept /\ UNCHANGED exceptPage
    \/ (\E t \in Fetchers, o \in HeadOutcomes : HeadRespond(t, o)) /\ UrlsKept /\ UNCHANGED exceptPage
    \/ (\E t \in Fetchers : ReleaseLockGranted(t)) /\ UrlsKept /\ UNCHANGED exceptPage
    \/ TripStart /\ UrlsKept /\ UNCHANGED exceptPage
    \/ TripDownGranted /\ UrlsKept /\ UNCHANGED exceptPage
    \/ TripWake /\ UrlsKept /\ UNCHANGED exceptPage
    \/ TripNotifyGranted /\ UrlsKept /\ UNCHANGED exceptPage

\* The state of the fetch service in the specifications that leave it out.
FetchOff ==
    /\ max_concurrency_cap = 1
    /\ threshold_429 = 1
    /\ current_concurrency_limit = 1
    /\ active_requests = 0
    /\ smart_max_cap = 1
    /\ failure_history = <<>>
    /\ circuit_breaker = TRUE
    /\ consecutive_429 = 0
    /\ current_backoff = 0
    /\ handling_429_lock = FALSE
    /\ cond_holder = NoTask
    /\ cond_lock_waiters = <<>>
    /\ cond_waiters = <<>>
    /\ fpc = [t \in Fetchers |-> "idle"]
    /\ fcancelled = [t \in Fetchers |-> FALSE]
    /\ trip_pc = "idle"
    /\ trip_pending = 0
    /\ fetches = 0
    /\ run_429 = 0
    /\ PageOff


(***************************************************************************)
(* Properties of the fetch service                                         *)
(***************************************************************************)
InFlight(t) == fpc[t] \in {"jitter", "flight", "body", "redirect", "head", "rel_lock"}

\* C2: in every reachable state of the fetch service, for every hard cap >= 1
\* and every sequence of 200 and 429 responses,
\* 0 < current_limit <= smart_max_cap <= hard_cap.
C2_LimitOrder ==
    /\ 0 < current_concurrency_limit
    /\ current_concurrency_limit <= smart_max_cap
    /\ smart_max_cap <= max_concurrency_cap

\* C2, its case: after decreases the three values are all different.
C2_Witness ==
    /\ failure_history # <<>>
    /\ current_concurrency_limit < smart_max_cap
    /\ smart_max_cap < max_concurrency_cap

\* C3 as stated: at all times active_requests <= current_limit.
C3_ActiveWithinLimit ==
    active_requests <= current_concurrency_limit

\* C3 as amended: active_requests <= current_limit is kept by every step
\* that does not lower current_limit (only a multiplicative decrease can
\* leave more fetches in flight than the limit), and active_requests never
\* exceeds the hard cap.
C3_ActiveWithinLimitUnlessDecreased ==
    /\ [](active_requests <= max_concurrency_cap)
    /\ [][(/\ active_requests <= current_concurrency_limit
           /\ current_concurrency_limit' >= current_concurrency_limit)
          => active_requests' <= current_concurrency_limit']_vars

\* C3, its case: a decrease has left more fetches in flight than the limit.
C3_Witness ==
    /\ failure_history # <<>>
    /\ active_requests > current_concurrency_limit

\* C4: the step that takes the consecutive-429 counter to the threshold
\* opens the breaker; no slot is granted from then until the backoff sleep
\* has ended; and the step that closes the breaker leaves the counter at 0.
C4_NoGrantWhileBreakerOpen ==
    [][/\ consecutive_429' >= threshold_429 => ~circuit_breaker'
       /\ (~circuit_breaker \/ ~circuit_breaker') => active_requests' <= active_requests
       /\ (~circuit_breaker /\ circuit_breaker') => consecutive_429' = 0]_vars

\* C4, its case: the breaker is open and a fetch waits for a slot that the
\* limit alone would grant.
C4_Witness ==
    /\ ~circuit_breaker
    /\ active_requests < current_concurrency_limit
    /\ \E t \in Fetchers : fpc[t] = "acq_breaker"

\* C5: active_requests is the number of fetches between their acquire and
\* their release (every fetch that took a slot gives it back exactly once),
\* so it is 0 when none is in flight.
C5_SlotsMatchFetches ==
    active_requests = Cardinality({t \in Fetchers : InFlight(t)})

\* The step opens the breaker.
BreakerOpens == circuit_breaker /\ ~circuit_breaker'

\* C19: the breaker opens only when at least threshold 429 responses have
\* come in since the last 200 response (a 200 starts the count again), and
\* by then the limit, never below 1, has been decreased at least
\* threshold - 1 times before the step that opens the breaker.
C19_OpensAtThreshold ==
    [][BreakerOpens =>
         /\ run_429 >= threshold_429
         /\ Len(failure_history) >= threshold_429 - 1
         /\ current_concurrency_limit' >= 1]_vars

\* The step sends a request of task t: the GET of fetch_page or a HEAD of
\* follow_redirects.
SendsRequest(t) ==
    \/ fpc[t] # "flight" /\ fpc'[t] = "flight"
    \/ fpc[t] # "head" /\ fpc'[t] = "head"

\* C20: while the breaker is open no fetch sends a request, neither its GET
\* nor a HEAD for a redirect, whatever it was doing when the breaker opened.
C20_NoRequestWhileOpen ==
    [][\A t \in Fetchers : SendsRequest(t) => circuit_breaker]_vars

\* C29: smart_max_cap never rises: no 200 response raises it and every
\* recomputation after a 429 leaves it at or below its previous value; and
\* right after each decrease current_limit is at most smart_max_cap.
C29_CeilingNeverRises ==
    [][/\ smart_max_cap' <= smart_max_cap
       /\ failure_history' # failure_history
            => current_concurrency_limit' <= smart_max_cap']_vars

\* C29, its case: a second decrease has lowered the ceiling that the first
\* one had left.
C29_Witness ==
    /\ Len(failure_history) >= 2
    /\ smart_max_cap < SmartCeiling(SubSeq(failure_history, 1, Len(failure_history) - 1))

C27_ChainStartsAtOwnUrl ==
    \A t \in Fetchers : chain_from[t] \in {NoPageUrl, UrlOf(t)}

\* C30: a 503 answer takes the feedback path of a 429: the step that
\* receives it creates the task that lowers the limit.
C30_503Throttles ==
    [][fevent'.got = "503" => trip_pending' = trip_pending + 1]_vars

\* Task t is inside _acquire_slot, not yet granted a slot.
\* The integer part of the mean of the crash points recorded so far.
MeanCrashPoint(h) == SumSeq(h) \div Len(h)

\* C33: after each multiplicative decrease smart_max_cap is the integer
\* part of the mean of failure_history, bounded above by the hard cap.
C33_CeilingIsMean ==
    [][failure_history' # failure_history =>
          smart_max_cap' = Min(MeanCrashPoint(failure_history'), max_concurrency_cap)]_vars

\* C33, amended: after each multiplicative decrease smart_max_cap is the
\* integer part of the mean of failure_history, raised to 3 when the mean
\* is below 3, and then bounded above by the hard cap.
C33_CeilingIsFlooredMean ==
    [][failure_history' # failure_history =>
          smart_max_cap' =
             Min(IF MeanCrashPoint(failure_history') < 3 THEN 3
                 ELSE MeanCrashPoint(failure_history'),
                 max_concurrency_cap)]_vars

\* The limit has crashed at small values: the mean of the crash points is
\* below 3 and the ceiling stands at 3.
C33_Witness ==
    /\ Len(failure_history) >= 2
    /\ MeanCrashPoint(failure_history) < 3
    /\ smart_max_cap = 3

\* A 429 is handled in this step: the routine, past its two tests, has
\* lowered the limit and counts the 429.
Handles429 == consecutive_429' = consecutive_429 + 1

\* C34: failure_history changes only by the append of one entry, and does
\* so in every step that handles a 429 and in no other; the entry is the
\* limit before the step, and the limit after the step is half of it,
\* rounded down and at least 1, and at most the ceiling after the step.
C34_HalveAndRecord ==
    /\ [][Handles429 <=> failure_history' # failure_history]_vars
    /\ [][failure_history' # failure_history =>
            /\ failure_history' = Append(failure_history, current_concurrency_limit)
            /\ current_concurrency_limit' =
                  LET half == current_concurrency_limit \div 2
                      floored == IF half < 1 THEN 1 ELSE half
                  IN  IF floored > smart_max_cap' THEN smart_max_cap' ELSE floored]_vars

\* A 429 has been handled with the limit at 1 already: 1 is recorded once
\* more and the limit stays 1.
C34_Witness ==
    /\ Len(failure_history) >= 2
    /\ failure_history[Len(failure_history)] = 1
    /\ failure_history[Len(failure_history) - 1] <= 2
    /\ current_concurrency_limit = 1

\* The trip routine goes to sleep in this step, for the current_backoff
\* it found.
BeginsSleep == trip_pc' = "sleep" /\ trip_pc # "sleep"

\* C38: every backoff sleep is at most max_backoff, and the sleep of the
\* next trip, if no 200 comes in between, is not shorter: the backoff the
\* trip leaves behind is the lesser of 1.5 times its sleep and max_backoff,
\* and not below its sleep.
C38_SleepWithinMax ==
    [][BeginsSleep =>
          /\ current_backoff <= MaxBackoff * BackoffScale
          /\ current_backoff' >= current_backoff
          /\ current_backoff' = Min((current_backoff * 3) \div 2,
                                    MaxBackoff * BackoffScale)]_vars

\* C40: a slot is granted, one at a time, only in a step that starts with
\* the breaker closed and active_requests below the limit, the test and
\* the increment being one step; and active_requests never exceeds the
\* hard cap.
C40_GrantIsAtomic ==
    /\ [][active_requests' > active_requests =>
            /\ circuit_breaker
            /\ active_requests < current_concurrency_limit
            /\ active_requests' = active_requests + 1]_vars
    /\ [](active_requests <= max_concurrency_cap)

\* Every slot of the hard cap is taken and a further fetch waits in the
\* gate.
C40_Witness ==
    /\ active_requests = max_concurrency_cap
    /\ \E t \in Fetchers : fpc[t] = "acq_cond"

\* A task created for a 429 response runs its first step.
TripArrives == trip_pending' = trip_pending - 1

WaitsForSlot(t) == fpc[t] \in {"acq_lock", "acq_breaker", "acq_cond", "acq_notified"}

Limited == max_pages_to_crawl # NoLimit

\* Queue.put on the unbounded queue.
QueuePut(item) ==
    /\ queue' = Append(queue, item)
    /\ unfinished_tasks' = unfinished_tasks + 1
    /\ queue_finished' = FALSE
    /\ enqueued' = enqueued + 1

\* How many times _worker_loop calls queue.task_done() for an item whose
\* work function ended by kind: the finally calls it, and so does each of
\* the two except clauses before it.
TaskDoneCallsTwice(kind) == 2

TaskDoneCalls(kind) == IF kind = "return" THEN 1 ELSE 2

\* Queue.task_done() called `calls` times in a row on a count n: the count
\* left, and whether a call raised ValueError (count already 0).
AfterTaskDone(n, calls) ==
    IF n >= calls
    THEN [count |-> n - calls, raised |-> FALSE]
    ELSE [count |-> IF n > 0 THEN 0 ELSE n, raised |-> TRUE]

\* item = None at the top of the worker loop: the queue of the generic pool
\* holds numbers, the frontier of the crawl holds URLs.
NoWorkItem == IF start_url = NoUrl THEN NoItem ELSE NoUrl

\* The work function of worker w has ended (kind: "return", "raise" or
\* "cancel"): the except and finally clauses run, then the loop goes on,
\* breaks, or dies of the ValueError.
\* n is the unfinished count when the first task_done is called (the work
\* function may have put items since the last suspension).
FinishWork(w, kind, stop, n) ==
    LET after == AfterTaskDone(n, TaskDoneCalls(kind))
        zero == after.count = 0 /\ n > 0
    IN  /\ unfinished_tasks' = after.count
        /\ queue_finished' = IF zero THEN TRUE
                             ELSE IF n > unfinished_tasks THEN FALSE
                             ELSE queue_finished
        /\ join_woken' = (join_woken \/ (zero /\ run_pc = "wait" /\ ~Limited))
        /\ ended' = ended + 1
        /\ witem' = [witem EXCEPT ![w] = NoWorkItem]
        /\ wpc' = [wpc EXCEPT ![w] =
                IF after.raised THEN "crashed"
                ELSE IF kind = "cancel" \/ stop THEN "stopped"
                ELSE "get"]

\* wait_for(queue.get()) times out on an empty queue and the loop sees the
\* stop signal.
WorkerSeesStop(w) ==
    /\ wpc[w] = "get"
    /\ ~wcancel[w]
    /\ queue = <<>>
    /\ stop_event
    /\ wpc' = [wpc EXCEPT ![w] = "stopped"]
    /\ UNCHANGED <<queue, unfinished_tasks, queue_finished, join_woken, stop_event,
                   max_pages_to_crawl, witem, wcancel, run_pc, enqueued, ended>>

\* CancelledError reaches a worker waiting for an item: break.
WorkerCancelledIdle(w) ==
    /\ wpc[w] = "get"
    /\ wcancel[w]
    /\ wpc' = [wpc EXCEPT ![w] = "stopped"]
    /\ UNCHANGED <<queue, unfinished_tasks, queue_finished, join_woken, stop_event,
                   max_pages_to_crawl, witem, wcancel, run_pc, enqueued, ended>>

\* CancelledError reaches a worker inside its work function.
WorkerCancelledInWork(w) ==
    /\ wpc[w] = "work"
    /\ wcancel[w]
    /\ FinishWork(w, "cancel", stop_event, unfinished_tasks)
    /\ UNCHANGED <<queue, stop_event, max_pages_to_crawl, wcancel, run_pc, enqueued>>

(***************************************************************************)
(* A generic work function: it may put items, set the stop signal (as the  *)
(* crawl's does at the page cap), return or raise.                         *)
(***************************************************************************)
PoolGet(w) ==
    /\ wpc[w] = "get"
    /\ ~wcancel[w]
    /\ queue # <<>>
    /\ queue' = Tail(queue)
    /\ witem' = [witem EXCEPT ![w] = Head(queue)]
    /\ wpc' = [wpc EXCEPT ![w] = "work"]
    /\ UNCHANGED <<unfinished_tasks, queue_finished, join_woken, stop_event,
                   max_pages_to_crawl, wcancel, run_pc, enqueued, ended>>

WorkPuts(w) ==
    /\ wpc[w] = "work"
    /\ ~wcancel[w]
    /\ enqueued < MaxItems
    /\ QueuePut(enqueued + 1)
    /\ UNCHANGED <<join_woken, stop_event, max_pages_to_crawl, wpc, witem, wcancel,
                   run_pc, ended>>

WorkSetsStop(w) ==
    /\ wpc[w] = "work"
    /\ ~wcancel[w]
    /\ Limited
    /\ ~stop_event
    /\ stop_event' = TRUE
    /\ UNCHANGED <<queue, unfinished_tasks, queue_finished, join_woken,
                   max_pages_to_crawl, wpc, witem, wcancel, run_pc, enqueued, ended>>

WorkReturns(w) ==
    /\ wpc[w] = "work"
    /\ ~wcancel[w]
    /\ FinishWork(w, "return", stop_event, unfinished_tasks)
    /\ UNCHANGED <<queue, stop_event, max_pages_to_crawl, wcancel, run_pc, enqueued>>

WorkRaises(w) ==
    /\ wpc[w] = "work"
    /\ ~wcancel[w]
    /\ FinishWork(w, "raise", stop_event, unfinished_tasks)
    /\ UNCHANGED <<queue, stop_event, max_pages_to_crawl, wcancel, run_pc, enqueued>>

(***************************************************************************)
(* AsyncCrawlController.run, as far as the pool sees it                    *)
(***************************************************************************)
Live(w) == wpc[w] \in {"get", "work"}

\* The cleanup of run(): the manager task is cancelled unless it is done,
\* which cancels every worker task that has not ended.
CancelWorkers == [w \in Workers |-> Live(w)]

\* The seed is put on the queue and the workers are started.
PoolSeed ==
    /\ run_pc = "start"
    /\ QueuePut(1)
    /\ wpc' = [w \in Workers |-> "get"]
    /\ run_pc' = "wait"
    /\ UNCHANGED <<join_woken, stop_event, max_pages_to_crawl, witem, wcancel, ended>>

\* Without a page cap: queue.join() returns, the stop signal is set and the
\* workers are cancelled.
RunJoinReturns ==
    /\ run_pc = "wait"
    /\ ~Limited
    /\ join_woken
    /\ stop_event' = TRUE
    /\ wcancel' = CancelWorkers
    /\ run_pc' = "cleanup"
    /\ UNCHANGED <<queue, unfinished_tasks, queue_finished, join_woken,
                   max_pages_to_crawl, wpc, witem, enqueued, ended>>

\* With a page cap: stop_crawl_event.wait() returns and the workers are
\* cancelled.
RunStopSeen ==
    /\ run_pc = "wait"
    /\ Limited
    /\ stop_event
    /\ wcancel' = CancelWorkers
    /\ run_pc' = "cleanup"
    /\ UNCHANGED <<queue, unfinished_tasks, queue_finished, join_woken, stop_event,
                   max_pages_to_crawl, wpc, witem, enqueued, ended>>

\* `await self._worker_task` returns: every worker has ended.
RunWorkersGone ==
    /\ run_pc = "cleanup"
    /\ \A w \in Workers : ~Live(w)
    /\ run_pc' = "done"
    /\ UNCHANGED <<queue, unfinished_tasks, queue_finished, join_woken, stop_event,
                   max_pages_to_crawl, wpc, witem, wcancel, enqueued, ended>>

InitPool ==
    /\ queue = <<>>
    /\ unfinished_tasks = 0
    /\ queue_finished = TRUE
    /\ join_woken = FALSE
    /\ stop_event = FALSE
    /\ max_pages_to_crawl \in {NoLimit, 1}
    /\ wpc = [w \in Workers |-> "new"]
    /\ witem = [w \in Workers |-> NoItem]
    /\ wcancel = [w \in Workers |-> FALSE]
    /\ run_pc = "start"
    /\ enqueued = 0
    /\ ended = 0

PoolOff ==
    /\ queue = <<>>
    /\ unfinished_tasks = 0
    /\ queue_finished = TRUE
    /\ join_woken = FALSE
    /\ stop_event = FALSE
    /\ max_pages_to_crawl = NoLimit
    /\ wpc = [w \in Workers |-> "new"]
    /\ witem = [w \in Workers |-> NoItem]
    /\ wcancel = [w \in Workers |-> FALSE]
    /\ run_pc = "start"
    /\ enqueued = 0
    /\ ended = 0

NextPool ==
    \/ PoolSeed /\ UNCHANGED exceptPool
    \/ (\E w \in Workers : PoolGet(w)) /\ UNCHANGED exceptPool
    \/ (\E w \in Workers : WorkPuts(w)) /\ UNCHANGED exceptPool
    \/ (\E w \in Workers : WorkSetsStop(w)) /\ UNCHANGED exceptPool
    \/ (\E w \in Workers : WorkReturns(w)) /\ UNCHANGED exceptPool
    \/ (\E w \in Workers : WorkRaises(w)) /\ UNCHANGED exceptPool
    \/ (\E w \in Workers : WorkerSeesStop(w)) /\ UNCHANGED exceptPool
    \/ (\E w \in Workers : WorkerCancelledIdle(w)) /\ UNCHANGED exceptPool
    \/ (\E w \in Workers : WorkerCancelledInWork(w)) /\ UNCHANGED exceptPool
    \/ RunJoinReturns /\ UNCHANGED exceptPool
    \/ RunStopSeen /\ UNCHANGED exceptPool
    \/ RunWorkersGone /\ UNCHANGED exceptPool

(***************************************************************************)
(* Properties of the worker pool                                           *)
(***************************************************************************)
\* C6: a work function that raises for an item does not end any worker: no
\* worker that has not been cancelled ever leaves its loop by an exception,
\* whatever the number of unfinished items.
C6_FailureKeepsWorkersAlive ==
    \A w \in Workers : wpc[w] = "crashed" => wcancel[w]

\* C7: every dequeued item is marked complete exactly once, so the queue's
\* unfinished count is the number of items put minus the number of items
\* whose processing has ended.
C7_UnfinishedMatches ==
    unfinished_tasks = enqueued - ended

\* C8: when a worker is cancelled inside its work function, the step that
\* unwinds it marks its item complete exactly once: the unfinished count
\* goes down by one, not by two, and the worker ends without an error.
C8_CancelMarksDoneOnce ==
    [][\A w \in Workers :
         (wcancel[w] /\ wpc[w] = "work" /\ wpc'[w] # "work")
         => (unfinished_tasks' = unfinished_tasks - 1 /\ wpc'[w] = "stopped")]_vars

(***************************************************************************)
(* The worker pool on its own, with the pause signal in the hands of its   *)
(* owner: a worker that finds the signal cleared at the top of its loop    *)
(* waits for it ("paused").  The stop signal is set by the work function   *)
(* or by the owner of the pool; nobody cancels the workers.                *)
(***************************************************************************)
\* AdaptiveWorkerManager.__init__ without a pause_event: the internal event
\* is set.
PauseOff ==
    /\ pause_event = TRUE
    /\ pause_moves = 0

\* The stop test at the top of the loop has passed and the pause signal is
\* cleared: await self.pause_event.wait().
WorkerPauses(w) ==
    /\ wpc[w] = "get"
    /\ ~stop_event
    /\ ~pause_event
    /\ wpc' = [wpc EXCEPT ![w] = "paused"]
    /\ UNCHANGED <<queue, unfinished_tasks, queue_finished, join_woken, stop_event,
                   max_pages_to_crawl, witem, wcancel, run_pc, enqueued, ended>>
    /\ UNCHANGED pauseVars

\* pause_event.wait() returns: the stop signal is tested again, at once.
WorkerResumes(w) ==
    /\ wpc[w] = "paused"
    /\ pause_event
    /\ wpc' = [wpc EXCEPT ![w] = IF stop_event THEN "stopped" ELSE "get"]
    /\ UNCHANGED <<queue, unfinished_tasks, queue_finished, join_woken, stop_event,
                   max_pages_to_crawl, witem, wcancel, run_pc, enqueued, ended>>
    /\ UNCHANGED pauseVars

\* The owner of the pause signal clears it, or sets it again.
PauseMoves(to) ==
    /\ run_pc = "wait"
    /\ pause_moves < MaxPauses
    /\ pause_event # to
    /\ pause_event' = to
    /\ pause_moves' = pause_moves + 1
    /\ UNCHANGED poolVars

\* The owner of the pool sets the stop signal.
OwnerSetsStop ==
    /\ run_pc = "wait"
    /\ ~stop_event
    /\ stop_event' = TRUE
    /\ UNCHANGED <<queue, unfinished_tasks, queue_finished, join_woken,
                   max_pages_to_crawl, wpc, witem, wcancel, run_pc, enqueued, ended>>
    /\ UNCHANGED pauseVars

NextPause ==
    \/ PoolSeed /\ UNCHANGED pauseVars /\ UNCHANGED exceptPause
    \/ (\E w \in Workers : PoolGet(w)) /\ UNCHANGED pauseVars /\ UNCHANGED exceptPause
    \/ (\E w \in Workers : WorkPuts(w)) /\ UNCHANGED pauseVars /\ UNCHANGED exceptPause
    \/ (\E w \in Workers : WorkSetsStop(w)) /\ UNCHANGED pauseVars
          /\ UNCHANGED exceptPause
    \/ (\E w \in Workers : WorkReturns(w)) /\ UNCHANGED pauseVars /\ UNCHANGED exceptPause
    \/ (\E w \in Workers : WorkRaises(w)) /\ UNCHANGED pauseVars /\ UNCHANGED exceptPause
    \/ (\E w \in Workers : WorkerSeesStop(w)) /\ UNCHANGED pauseVars
          /\ UNCHANGED exceptPause
    \/ (\E w \in Workers : WorkerPauses(w)) /\ UNCHANGED exceptPause
    \/ (\E w \in Workers : WorkerResumes(w)) /\ UNCHANGED exceptPause
    \/ (\E to \in BOOLEAN : PauseMoves(to)) /\ UNCHANGED exceptPause
    \/ OwnerSetsStop /\ UNCHANGED exceptPause

\* The event loop runs every worker that can run, and the work function
\* returns.
WorkerLoopGoesOn(w) ==
    (PoolGet(w) \/ WorkReturns(w) \/ WorkerSeesStop(w) \/ WorkerPauses(w)
       \/ WorkerResumes(w))
      /\ UNCHANGED pauseVars /\ UNCHANGED exceptPause

PauseFairness == \A w \in Workers : WF_vars(WorkerLoopGoesOn(w))

\* C32: once the stop signal is set, every worker leaves its loop, so that
\* the gather() of the pool's run() returns.
C32_StopEndsWorkers ==
    stop_event ~> (\A w \in Workers : wpc[w] \in {"stopped", "crashed"})

(***************************************************************************)
(* The crawl: _process_url as the pool's work function, the visited set    *)
(* and the page cap.                                                       *)
(*                                                                         *)
(* A URL of the crawled site is its path, whether it carries a fragment,   *)
(* and whether it is longer than pydantic's HttpUrl accepts; scheme and    *)
(* host are the same for every URL here.                                   *)
(***************************************************************************)
Paths == {"", "/", "/a"}

Urls == [path : Paths, frag : BOOLEAN, long : BOOLEAN]

\* UrlUtils.normalize_url on an absolute URL: an empty path becomes "/",
\* the fragment is removed.
normalize_url(url) ==
    [path |-> IF url.path = "" THEN "/" ELSE url.path, frag |-> FALSE,
     long |-> url.long]

\* UrlUtils.is_valid_link with its defaults: a URL with a fragment is not
\* fetched.
is_valid_link(url) == ~url.frag

\* Whether the HttpUrl field of Page, Request and Link accepts the URL;
\* the constructor raises ValidationError otherwise.
HttpUrlAccepts(url) == ~url.long

\* str() of the HttpUrl held by Link.target_url: an empty path becomes "/",
\* a fragment is kept.
TargetUrlStr(url) ==
    [url EXCEPT !.path = IF url.path = "" THEN "/" ELSE url.path]

\* An internal link as LinkProcessorService.process_links returns it: the
\* normalized URL of an href, and whether the rel attribute, lower-cased,
\* contains "nofollow".
Links == {[url |-> normalize_url(href), nofollow |-> n] : href \in Urls, n \in BOOLEAN}

\* The internal links of one page, in document order.
LinkLists == UNION {[1..n -> Links] : n \in 0..MaxLinks}

\* The Link record built for a link.
LinkObj(link) ==
    [target_url |-> TargetUrlStr(link.url), nofollow |-> link.nofollow]

\* The nofollow check.
IsNofollowNever(link, respect) == FALSE

IsNofollow(link, respect) == respect /\ link.nofollow

\* The loop of _process_links over the internal links of a page: a link
\* whose Link record cannot be built is skipped; the others are collected
\* for the buffer, and the target of one that is not nofollow and not in
\* visited is added to visited and put on the queue.
RECURSIVE ProcessLinks(_, _, _)
ProcessLinks(links, seen, respect) ==
    IF links = <<>>
    THEN [visited |-> seen, puts |-> <<>>, internal_objs |-> <<>>]
    ELSE LET valid == HttpUrlAccepts(Head(links).url)
             t_url == LinkObj(Head(links)).target_url
             new == valid /\ ~IsNofollow(Head(links), respect) /\ t_url \notin seen
             rest == ProcessLinks(Tail(links), IF new THEN seen \cup {t_url} ELSE seen,
                                  respect)
         IN  [visited |-> rest.visited,
              puts |-> IF new THEN <<t_url>> \o rest.puts ELSE rest.puts,
              internal_objs |-> IF valid THEN <<LinkObj(Head(links))>> \o rest.internal_objs
                                ELSE rest.internal_objs]

\* The guard of the save logic.
MaySave(pages, max) == max = NoLimit \/ pages < max

\* The cap check after the increment.
CapReached(pages, max) == max # NoLimit /\ pages >= max

\* run() seeds the frontier with the start URL and starts the workers.
CrawlSeed ==
    /\ run_pc = "start"
    /\ visited' = {start_url}
    /\ queue' = <<start_url>>
    /\ put_log' = <<start_url>>
    /\ unfinished_tasks' = 1
    /\ queue_finished' = FALSE
    /\ enqueued' = 1
    /\ wpc' = [w \in Workers |-> "get"]
    /\ run_pc' = "wait"
    /\ UNCHANGED <<join_woken, stop_event, max_pages_to_crawl, witem, wcancel, ended,
                   start_url, pages_crawled, respect_nofollow, internal,
                   internal_links_buffer, requests_buffer>>

\* A worker gets a URL and enters _process_url: with the stop signal set
\* the call returns at once, otherwise it suspends in the fetch.
CrawlGet(w) ==
    /\ wpc[w] = "get"
    /\ ~wcancel[w]
    /\ queue # <<>>
    /\ queue' = Tail(queue)
    /\ IF stop_event
       THEN /\ FinishWork(w, "return", TRUE, unfinished_tasks)
       ELSE /\ witem' = [witem EXCEPT ![w] = Head(queue)]
            /\ wpc' = [wpc EXCEPT ![w] = "work"]
            /\ UNCHANGED <<unfinished_tasks, queue_finished, join_woken, ended>>
    /\ UNCHANGED <<stop_event, max_pages_to_crawl, wcancel, run_pc, enqueued, crawlVars>>

\* The fetch of worker w ends with nothing to save (robots exclusion,
\* invalid link, failed or empty response, noindex page): _process_url
\* returns.
CrawlNoPage(w) ==
    /\ wpc[w] = "work"
    /\ ~wcancel[w]
    /\ FinishWork(w, "return", stop_event, unfinished_tasks)
    /\ UNCHANGED <<queue, stop_event, max_pages_to_crawl, wcancel, run_pc, enqueued,
                   crawlVars>>

\* The fetch of worker w ends with a 200 page carrying `links`: the save
\* logic, then the link processing, then the return to the worker loop.
\* What the link processing leaves in the links buffer is followed in
\* SpecLinks.
\* pages_crawled is incremented before the Page record is built; when the
\* Page constructor raises, the rest of the try block is skipped.
CrawlPage(w, links) ==
    /\ wpc[w] = "work"
    /\ ~wcancel[w]
    /\ is_valid_link(witem[w])
    /\ LET save == MaySave(pages_crawled, max_pages_to_crawl)
           pages == IF save THEN pages_crawled + 1 ELSE pages_crawled
           built == save /\ HttpUrlAccepts(witem[w])
           stop == stop_event \/ (built /\ CapReached(pages, max_pages_to_crawl))
           found == IF built /\ ~stop
                    THEN ProcessLinks(links, visited, respect_nofollow)
                    ELSE [visited |-> visited, puts |-> <<>>, internal_objs |-> <<>>]
       IN  /\ pages_crawled' = pages
           /\ stop_event' = stop
           /\ visited' = found.visited
           /\ queue' = queue \o found.puts
           /\ put_log' = put_log \o found.puts
           /\ enqueued' = enqueued + Len(found.puts)
           /\ FinishWork(w, "return", stop, unfinished_tasks + Len(found.puts))
    /\ UNCHANGED <<max_pages_to_crawl, wcancel, run_pc, start_url, respect_nofollow,
                   internal, internal_links_buffer, requests_buffer>>

\* The controller when run() is called with settings.max_pages in `caps`.
InitCrawlWith(caps) ==
    /\ queue = <<>>
    /\ unfinished_tasks = 0
    /\ queue_finished = TRUE
    /\ join_woken = FALSE
    /\ stop_event = FALSE
    /\ max_pages_to_crawl \in caps
    /\ wpc = [w \in Workers |-> "new"]
    /\ witem = [w \in Workers |-> NoUrl]
    /\ wcancel = [w \in Workers |-> FALSE]
    /\ run_pc = "start"
    /\ enqueued = 0
    /\ ended = 0
    /\ start_url \in Urls
    /\ visited = {}
    /\ pages_crawled = 0
    /\ put_log = <<>>
    /\ respect_nofollow \in BOOLEAN
    /\ internal = <<>>
    /\ internal_links_buffer = <<>>
    /\ requests_buffer = <<>>

InitCrawl == InitCrawlWith({NoLimit} \cup (1..MaxPages))

\* settings.max_pages is Optional[int]: 0 is a page cap as well.
InitCrawlAnyCap == InitCrawlWith({NoLimit} \cup (0..MaxPages))

CrawlOff ==
    /\ start_url = NoUrl
    /\ visited = {}
    /\ pages_crawled = 0
    /\ put_log = <<>>
    /\ respect_nofollow = TRUE
    /\ internal = <<>>
    /\ internal_links_buffer = <<>>
    /\ requests_buffer = <<>>

NextCrawl ==
    \/ CrawlSeed /\ UNCHANGED exceptCrawl
    \/ (\E w \in Workers : CrawlGet(w)) /\ UNCHANGED exceptCrawl
    \/ (\E w \in Workers : CrawlNoPage(w)) /\ UNCHANGED exceptCrawl
    \/ (\E w \in Workers, links \in LinkLists : CrawlPage(w, links)) /\ UNCHANGED exceptCrawl
    \/ (\E w \in Workers : WorkerSeesStop(w)) /\ UNCHANGED exceptPool
    \/ (\E w \in Workers : WorkerCancelledIdle(w)) /\ UNCHANGED exceptPool
    \/ (\E w \in Workers : WorkerCancelledInWork(w)) /\ UNCHANGED exceptPool
    \/ RunJoinReturns /\ UNCHANGED exceptPool
    \/ RunStopSeen /\ UNCHANGED exceptPool
    \/ RunWorkersGone /\ UNCHANGED exceptPool

\* The event loop runs every task that can run, and every fetch ends: a
\* worker whose next step is possible takes it, and so does run().
WorkerGoesOn(w) ==
    \/ (CrawlGet(w) \/ CrawlNoPage(w) \/ \E links \in LinkLists : CrawlPage(w, links))
          /\ UNCHANGED exceptCrawl
    \/ (WorkerSeesStop(w) \/ WorkerCancelledIdle(w) \/ WorkerCancelledInWork(w))
          /\ UNCHANGED exceptPool

RunGoesOn ==
    \/ CrawlSeed /\ UNCHANGED exceptCrawl
    \/ (RunJoinReturns \/ RunStopSeen \/ RunWorkersGone) /\ UNCHANGED exceptPool

\* Each of these steps moves a worker, run() or the queue.
crawlMoves == <<wpc, run_pc, queue>>

CrawlFairness ==
    /\ \A w \in Workers : WF_crawlMoves(WorkerGoesOn(w))
    /\ WF_crawlMoves(RunGoesOn)

(***************************************************************************)
(* Properties of the crawl                                                 *)
(***************************************************************************)
\* C26: every run() leaves its wait and sees its workers end, with or
\* without a page cap.
C26_RunReturns == <>(run_pc = "done")

\* C1: no two entries ever put on the frontier queue, the seed included,
\* have the same normalized URL.
C1_NoDuplicateEntries ==
    \A i, j \in 1..Len(put_log) :
        i # j => normalize_url(put_log[i]) # normalize_url(put_log[j])

\* C9: with a page cap N, pages_crawled never exceeds N; the stop signal is
\* set in the very step in which pages_crawled reaches N and by nothing
\* else, so that run() leaves its wait only with the cap reached.
C9_PageCap ==
    Limited =>
        /\ pages_crawled <= max_pages_to_crawl
        /\ stop_event <=> pages_crawled = max_pages_to_crawl
        /\ run_pc \in {"cleanup", "done"} => stop_event

\* C17: without a page cap the stop signal is set only when the frontier is
\* drained: from the step that sets it on, the queue is empty, every URL
\* ever put on it has been processed to the end, and no worker is inside
\* _process_url.
C17_StopAfterDrain ==
    (~Limited /\ stop_event) =>
        /\ queue = <<>>
        /\ ended = enqueued
        /\ \A w \in Workers : wpc[w] # "work"

\* run() has set the stop signal after a crawl of three URLs.
C17_Witness ==
    /\ ~Limited
    /\ stop_event
    /\ run_pc = "cleanup"
    /\ enqueued = 3
    /\ ended = 3

(***************************************************************************)
(* The save logic of _process_url and _process_links, for one fetched     *)
(* page, in any state of the visited set that a crawl can have reached.    *)
(* "fetched" is the worker with the 200 response in hand, "work" the       *)
(* worker about to call _process_links, "linked" the worker back in        *)
(* _process_url after the call and "unlinked" the worker that has left     *)
(* _process_url without the call.  Neither part has a suspension point     *)
(* (the locks are free, the queue is unbounded).                           *)
(***************************************************************************)
\* The URL strings that link processing can have put in visited.
TargetStrs == {LinkObj(l).target_url : l \in {x \in Links : HttpUrlAccepts(x.url)}}

\* What fetch_page gave _process_url: a 200 with content that is to be
\* saved, a 200 with a noindex tag, or anything else.
FetchResults == {"page", "noindex", "failed"}

\* _log_request: the entry for the fetch of `url`, or nothing when the
\* Request record cannot be built (the ValidationError is logged only).
Logged(url, result) ==
    IF HttpUrlAccepts(url) THEN <<[url |-> url, result |-> result]>> ELSE <<>>

\* fetch_page returns to _process_url: the request is logged, and the
\* call goes on to the save logic only with a page to save.
FetchReturns(w, result) ==
    /\ wpc[w] = "fetching"
    /\ requests_buffer' = requests_buffer \o Logged(witem[w], result)
    /\ wpc' = [wpc EXCEPT ![w] = IF result = "page" THEN "fetched" ELSE "unlinked"]
    /\ UNCHANGED <<queue, unfinished_tasks, queue_finished, join_woken, stop_event,
                   max_pages_to_crawl, witem, wcancel, run_pc, enqueued, ended,
                   start_url, visited, pages_crawled, put_log, respect_nofollow, internal,
                   internal_links_buffer>>

\* Lines 253-277 of _process_url for the page of worker w: the Page record
\* is made when the cap allows it, the stop signal is set when the cap is
\* reached, and _process_links is called only with the stop signal clear.
SavePage(w) ==
    /\ wpc[w] = "fetched"
    /\ LET save == MaySave(pages_crawled, max_pages_to_crawl)
           pages == IF save THEN pages_crawled + 1 ELSE pages_crawled
           built == save /\ HttpUrlAccepts(witem[w])
           stop == stop_event \/ (built /\ CapReached(pages, max_pages_to_crawl))
       IN  /\ pages_crawled' = pages
           /\ stop_event' = stop
           /\ wpc' = [wpc EXCEPT ![w] = IF built /\ ~stop THEN "work" ELSE "unlinked"]
    /\ UNCHANGED <<queue, unfinished_tasks, queue_finished, join_woken,
                   max_pages_to_crawl, witem, wcancel, run_pc, enqueued, ended,
                   start_url, visited, put_log, respect_nofollow, internal,
                   internal_links_buffer, requests_buffer>>

ProcessLinksCall(w, links) ==
    /\ wpc[w] = "work"
    /\ ~stop_event
    /\ LET found == ProcessLinks(links, visited, respect_nofollow)
       IN  /\ internal' = links
           /\ internal_links_buffer' = internal_links_buffer \o found.internal_objs
           /\ visited' = found.visited
           /\ queue' = queue \o found.puts
           /\ put_log' = put_log \o found.puts
           /\ enqueued' = enqueued + Len(found.puts)
           /\ unfinished_tasks' = unfinished_tasks + Len(found.puts)
    /\ wpc' = [wpc EXCEPT ![w] = "linked"]
    /\ UNCHANGED <<queue_finished, join_woken, stop_event, max_pages_to_crawl, witem,
                   wcancel, run_pc, ended, start_url, pages_crawled, respect_nofollow,
                   requests_buffer>>

\* Worker 1 waits for the fetch of a URL that passed is_valid_link, the
\* first of the crawl; the other workers wait for items; the frontier is
\* empty.
InitLinks ==
    \E seen \in SUBSET TargetStrs, page \in Urls :
        /\ start_url \in Urls
        /\ visited = {start_url} \cup seen
        /\ page \in visited
        /\ is_valid_link(page)
        /\ queue = <<>>
        /\ unfinished_tasks = 1
        /\ queue_finished = FALSE
        /\ join_woken = FALSE
        /\ stop_event = FALSE
        /\ max_pages_to_crawl \in {NoLimit} \cup (1..MaxPages)
        /\ wpc = [w \in Workers |-> IF w = 1 THEN "fetching" ELSE "get"]
        /\ witem = [w \in Workers |-> IF w = 1 THEN page ELSE NoUrl]
        /\ wcancel = [w \in Workers |-> FALSE]
        /\ run_pc = "wait"
        /\ enqueued = 1
        /\ ended = 0
        /\ pages_crawled = 0
        /\ put_log = <<start_url>>
        /\ respect_nofollow \in BOOLEAN
        /\ internal = <<>>
        /\ internal_links_buffer = <<>>
        /\ requests_buffer = <<>>

NextLinks ==
    \/ (\E w \in Workers, result \in FetchResults : FetchReturns(w, result))
            /\ UNCHANGED exceptCrawl
    \/ (\E w \in Workers : SavePage(w)) /\ UNCHANGED exceptCrawl
    \/ (\E w \in Workers, links \in LinkLists : ProcessLinksCall(w, links))
            /\ UNCHANGED exceptCrawl

\* The Link records that the step appends to the links buffer.
Buffered == SubSeq(internal_links_buffer', Len(internal_links_buffer) + 1,
                   Len(internal_links_buffer'))

\* The entries that the step puts on the frontier.
Queued == SubSeq(put_log', Len(put_log) + 1, Len(put_log'))

LinksProcessed == \E w \in Workers : wpc[w] = "work" /\ wpc'[w] = "linked"

\* The link is one that the crawl is set not to follow.
NotFollowed(link) == respect_nofollow /\ link.nofollow

\* Link i of the page is not to be followed, and neither is any link of
\* the page with the same target.
OnlyNofollow(i) ==
    /\ NotFollowed(internal'[i])
    /\ \A j \in DOMAIN internal' :
          LinkObj(internal'[j]).target_url = LinkObj(internal'[i]).target_url
              => NotFollowed(internal'[j])

\* What one call does with link i of the page, when the link is one the
\* claim speaks of.
LinkHandled(i) ==
    LET obj == LinkObj(internal'[i])
        t_url == obj.target_url
    IN  /\ \E k \in DOMAIN Buffered : Buffered[k] = obj
        /\ (OnlyNofollow(i) /\ t_url \notin visited)
              => (t_url \notin visited' /\ \A k \in DOMAIN Queued : Queued[k] # t_url)
        /\ (~NotFollowed(internal'[i]) /\ t_url \notin visited)
              => (t_url \in visited' /\ \E k \in DOMAIN Queued : Queued[k] = t_url)

\* C18 as stated: every internal link of a page is buffered as a Link
\* record; with nofollow respected a nofollow link is neither put on the
\* frontier nor added to visited; a link that is not nofollow and whose
\* target is not in visited is put on the frontier and added to visited.
C18_NofollowRecordedNotQueued ==
    [][LinksProcessed => \A i \in DOMAIN internal' : LinkHandled(i)]_vars

\* The step makes the Page record of worker w's page.
PageAccepted(w) ==
    /\ wpc[w] = "fetched"
    /\ pages_crawled' = pages_crawled + 1
    /\ HttpUrlAccepts(witem[w])

\* C22: a page for which a Page record is made has its links classified,
\* and a Link record is buffered for each link found on it.
C22_AcceptedPageLinksBuffered ==
    [][/\ \A w \in Workers : PageAccepted(w) => wpc'[w] = "work"
       /\ LinksProcessed => Len(Buffered) = Len(internal')]_vars

\* C23: every fetch that returns appends exactly one entry to the request
\* log, the entry of its URL, whatever the result and whether or not a
\* page is saved; no other step touches the log.
C23_OneLogEntryPerFetch ==
    [][/\ \A w \in Workers :
            (wpc[w] = "fetching" /\ wpc'[w] # "fetching")
            => /\ Len(requests_buffer') = Len(requests_buffer) + 1
               /\ requests_buffer'[Len(requests_buffer')].url = witem[w]
       /\ (\A w \in Workers : wpc[w] = "fetching" => wpc'[w] = "fetching")
            => requests_buffer' = requests_buffer]_vars

\* C18, amended: the same for every internal link whose Link record can be
\* built; a link whose URL the HttpUrl field rejects is skipped: it is
\* neither buffered nor put on the frontier.
C18_ValidLinksRecordedNofollowNotQueued ==
    [][LinksProcessed =>
         /\ \A i \in DOMAIN internal' :
               HttpUrlAccepts(internal'[i].url) => LinkHandled(i)
         /\ Len(Buffered) =
               Cardinality({i \in DOMAIN internal' : HttpUrlAccepts(internal'[i].url)})]_vars

\* A page with a nofollow link and a followed link, to targets not yet
\* visited, has been processed with nofollow respected: one target was put
\* on the frontier, both links are in the buffer.
C18_Witness ==
    /\ respect_nofollow
    /\ \E w \in Workers : wpc[w] = "linked"
    /\ Len(internal) = 2
    /\ \E i, j \in DOMAIN internal : internal[i].nofollow /\ ~internal[j].nofollow
    /\ Len(internal_links_buffer) = 2
    /\ Len(queue) = 1
    /\ \E k \in DOMAIN internal_links_buffer :
          /\ internal_links_buffer[k].nofollow
          /\ internal_links_buffer[k].target_url \notin visited

(***************************************************************************)
(* The write buffers of AsyncCrawlController: _flush_buffer, called by the *)
(* periodic flusher task and, at the end of run(), by run() itself.        *)
(*                                                                         *)
(* A row is the number given to it when a worker appended it.  A save task *)
(* runs in a thread of the default executor; the call that started it      *)
(* waits in gather().                                                      *)
(***************************************************************************)
BufferNames == {"pages", "internal_links", "external_links", "requests"}

Callers == {"periodic", "final"}

Rows(seq) == {seq[i] : i \in 1..Len(seq)}

Occurrences(seq, r) == Cardinality({i \in 1..Len(seq) : seq[i] = r})

\* buf.clear()
ClearedKept(buf) == buf

Cleared(buf) == <<>>

\* The buffers for which _flush_buffer starts a save task.
FlushTasks == IF skip_save THEN {} ELSE {n \in BufferNames : buffers[n] # <<>>}

\* Caller c holds flush_lock and runs _flush_buffer up to gather(): every
\* buffer that has rows is copied and cleared (only cleared with
\* skip_save); without a save task the call returns in the same step.
BeginFlush(c) ==
    /\ buffers' = [n \in BufferNames |-> Cleared(buffers[n])]
    /\ flush_copy' = [flush_copy EXCEPT ![c] =
            [n \in BufferNames |-> IF n \in FlushTasks THEN buffers[n] ELSE <<>>]]
    /\ save_pending' = [save_pending EXCEPT ![c] = FlushTasks]
    /\ save_error' = [save_error EXCEPT ![c] = FALSE]
    /\ flush_lock' = IF FlushTasks = {} THEN "free" ELSE c
    /\ flush_returns' = IF FlushTasks = {}
                        THEN [flush_returns EXCEPT ![c] = @ + 1]
                        ELSE flush_returns
    /\ flush_pc' = [flush_pc EXCEPT ![c] =
            IF FlushTasks # {} THEN "saving"
            ELSE IF c = "final" THEN "done"
            ELSE IF stop_event THEN "ended"
            ELSE "sleep"]

\* run() creates the flusher task and starts the crawl.
FlushStart ==
    /\ run_pc = "start"
    /\ run_pc' = "wait"
    /\ flush_pc' = [flush_pc EXCEPT !["periodic"] = "sleep"]
    /\ UNCHANGED <<buffers, stored, flush_copy, save_pending, save_error, flush_lock,
                   flush_returns, orphans, flusher_cancel, skip_save, rows_made,
                   stop_event,
                   persist_failed>>

\* A worker appends a row to one of the buffers.
AppendRow(n) ==
    /\ run_pc \in {"wait", "cleanup"}
    /\ rows_made < MaxRows
    /\ rows_made' = rows_made + 1
    /\ buffers' = [buffers EXCEPT ![n] = Append(@, rows_made + 1)]
    /\ UNCHANGED <<stored, flush_pc, flush_copy, save_pending, save_error, flush_lock,
                   flush_returns, orphans, flusher_cancel, skip_save, run_pc, stop_event,
                   persist_failed>>

\* A worker reaches the page cap and sets the stop signal.
StopAtCap ==
    /\ run_pc = "wait"
    /\ Limited
    /\ ~stop_event
    /\ stop_event' = TRUE
    /\ UNCHANGED <<buffers, stored, flush_pc, flush_copy, save_pending, save_error,
                   flush_lock, flush_returns, orphans, flusher_cancel, skip_save,
                   rows_made, run_pc,
                   persist_failed>>

\* run() leaves its wait (stop signal seen, or queue drained) and starts to
\* wait for the workers to end.
RunLeavesWait ==
    /\ run_pc = "wait"
    /\ Limited => stop_event
    /\ stop_event' = TRUE
    /\ run_pc' = "cleanup"
    /\ UNCHANGED <<buffers, stored, flush_pc, flush_copy, save_pending, save_error,
                   flush_lock, flush_returns, orphans, flusher_cancel, skip_save,
                   rows_made,
                   persist_failed>>

\* The sleep of the periodic flusher ends with rows in some buffer.
PeriodicWakes ==
    /\ flush_pc["periodic"] = "sleep"
    /\ ~flusher_cancel
    /\ flush_lock = "free"
    /\ \E n \in BufferNames : buffers[n] # <<>>
    /\ flush_returns["periodic"] < MaxFlushes
    /\ BeginFlush("periodic")
    /\ UNCHANGED <<stored, orphans, flusher_cancel, skip_save, rows_made, run_pc,
                   stop_event,
                   persist_failed>>

\* The sleep of the periodic flusher ends with no rows and the stop signal
\* set: the loop ends.
PeriodicSeesStop ==
    /\ flush_pc["periodic"] = "sleep"
    /\ ~flusher_cancel
    /\ stop_event
    /\ \A n \in BufferNames : buffers[n] = <<>>
    /\ flush_pc' = [flush_pc EXCEPT !["periodic"] = "ended"]
    /\ UNCHANGED <<buffers, stored, flush_copy, save_pending, save_error, flush_lock,
                   flush_returns, orphans, flusher_cancel, skip_save, rows_made, run_pc,
                   stop_event,
                   persist_failed>>

\* self.db.save(pid, n, d) on table tbl: the batch is written, or the error
\* of the write is logged and nothing is raised.
PersistedWithRetry(tbl, rows, ok) == IF ok THEN tbl \o rows ELSE tbl \o rows \o rows

Persisted(tbl, rows, ok) == IF ok THEN tbl \o rows ELSE tbl

\* The save task of caller c for buffer n runs self.db.save in its thread;
\* ok is whether the rows were persisted.
SaveRuns(c, n, ok) ==
    /\ flush_pc[c] = "saving"
    /\ n \in save_pending[c]
    /\ stored' = [stored EXCEPT ![n] = Persisted(@, flush_copy[c][n], ok)]
    /\ save_error' = [save_error EXCEPT ![c] = @ \/ ~ok]
    /\ save_pending' = [save_pending EXCEPT ![c] = @ \ {n}]
    /\ persist_failed' = (persist_failed \/ ~ok)
    /\ UNCHANGED <<buffers, flush_pc, flush_copy, flush_lock, flush_returns, orphans,
                   flusher_cancel, skip_save, rows_made, run_pc, stop_event>>

\* gather() of caller c returns: _flush_buffer releases flush_lock and
\* returns.
FlushReturns(c) ==
    /\ flush_pc[c] = "saving"
    /\ save_pending[c] = {}
    /\ c = "periodic" => ~flusher_cancel
    /\ flush_lock' = "free"
    /\ flush_returns' = [flush_returns EXCEPT ![c] = @ + 1]
    /\ flush_pc' = [flush_pc EXCEPT ![c] =
            IF c = "final" THEN "done"
            ELSE IF stop_event THEN "ended"
            ELSE "sleep"]
    /\ run_pc' = IF c = "final" THEN "done" ELSE run_pc
    /\ UNCHANGED <<buffers, stored, flush_copy, save_pending, save_error, orphans,
                   flusher_cancel, skip_save, rows_made, stop_event,
                   persist_failed>>

\* The workers have ended: run() cancels the flusher task and calls
\* _flush_buffer itself.
RunFinalFlush ==
    /\ run_pc = "cleanup"
    /\ flusher_cancel' = (flush_pc["periodic"] # "ended")
    /\ IF flush_lock = "free"
       THEN /\ BeginFlush("final")
            /\ run_pc' = IF FlushTasks = {} THEN "done" ELSE "flush"
       ELSE /\ flush_pc' = [flush_pc EXCEPT !["final"] = "lock"]
            /\ run_pc' = "flush"
            /\ UNCHANGED <<buffers, flush_copy, save_pending, save_error, flush_lock,
                           flush_returns>>
    /\ UNCHANGED <<stored, orphans, skip_save, rows_made, stop_event,
                   persist_failed>>

\* flush_lock is handed to run(), which waited for it.
FinalLockGranted ==
    /\ flush_pc["final"] = "lock"
    /\ flush_lock = "free"
    /\ BeginFlush("final")
    /\ run_pc' = IF FlushTasks = {} THEN "done" ELSE "flush"
    /\ UNCHANGED <<stored, orphans, flusher_cancel, skip_save, rows_made, stop_event,
                   persist_failed>>

\* CancelledError reaches the flusher task.  In gather(), the save tasks
\* that have not started are cancelled with it; those in `running` are in
\* their thread already and go on.
FlusherCancelled(running) ==
    /\ flusher_cancel
    /\ flush_pc["periodic"] \in {"sleep", "saving"}
    /\ running \subseteq save_pending["periodic"]
    /\ flush_pc' = [flush_pc EXCEPT !["periodic"] = "ended"]
    /\ save_pending' = [save_pending EXCEPT !["periodic"] = {}]
    /\ orphans' = orphans \cup running
    /\ flush_lock' = IF flush_lock = "periodic" THEN "free" ELSE flush_lock
    /\ UNCHANGED <<buffers, stored, flush_copy, save_error, flush_returns,
                   flusher_cancel, skip_save, rows_made, run_pc, stop_event,
                   persist_failed>>

\* A save task that outlived the cancelled flusher writes its rows.
OrphanSaveRuns(n, ok) ==
    /\ n \in orphans
    /\ orphans' = orphans \ {n}
    /\ stored' = [stored EXCEPT ![n] = Persisted(@, flush_copy["periodic"][n], ok)]
    /\ persist_failed' = (persist_failed \/ ~ok)
    /\ UNCHANGED <<buffers, flush_pc, flush_copy, save_pending, save_error, flush_lock,
                   flush_returns, flusher_cancel, skip_save, rows_made, run_pc,
                   stop_event>>

InitFlush ==
    /\ buffers = [n \in BufferNames |-> <<>>]
    /\ stored = [n \in BufferNames |-> <<>>]
    /\ flush_pc = [c \in Callers |-> "none"]
    /\ flush_copy = [c \in Callers |-> [n \in BufferNames |-> <<>>]]
    /\ save_pending = [c \in Callers |-> {}]
    /\ save_error = [c \in Callers |-> FALSE]
    /\ flush_lock = "free"
    /\ flush_returns = [c \in Callers |-> 0]
    /\ orphans = {}
    /\ flusher_cancel = FALSE
    /\ skip_save \in BOOLEAN
    /\ rows_made = 0
    /\ persist_failed = FALSE
    /\ queue = <<>>
    /\ unfinished_tasks = 0
    /\ queue_finished = TRUE
    /\ join_woken = FALSE
    /\ stop_event = FALSE
    /\ max_pages_to_crawl \in {NoLimit, 1}
    /\ wpc = [w \in Workers |-> "new"]
    /\ witem = [w \in Workers |-> NoItem]
    /\ wcancel = [w \in Workers |-> FALSE]
    /\ run_pc = "start"
    /\ enqueued = 0
    /\ ended = 0

FlushOff ==
    /\ buffers = [n \in BufferNames |-> <<>>]
    /\ stored = [n \in BufferNames |-> <<>>]
    /\ flush_pc = [c \in Callers |-> "none"]
    /\ flush_copy = [c \in Callers |-> [n \in BufferNames |-> <<>>]]
    /\ save_pending = [c \in Callers |-> {}]
    /\ save_error = [c \in Callers |-> FALSE]
    /\ flush_lock = "free"
    /\ flush_returns = [c \in Callers |-> 0]
    /\ orphans = {}
    /\ flusher_cancel = FALSE
    /\ skip_save = FALSE
    /\ rows_made = 0
    /\ persist_failed = FALSE

NextFlush ==
    \/ FlushStart /\ UNCHANGED exceptFlush
    \/ (\E n \in BufferNames : AppendRow(n)) /\ UNCHANGED exceptFlush
    \/ StopAtCap /\ UNCHANGED exceptFlush
    \/ RunLeavesWait /\ UNCHANGED exceptFlush
    \/ PeriodicWakes /\ UNCHANGED exceptFlush
    \/ PeriodicSeesStop /\ UNCHANGED exceptFlush
    \/ (\E c \in Callers, n \in BufferNames, ok \in BOOLEAN : SaveRuns(c, n, ok))
          /\ UNCHANGED exceptFlush
    \/ (\E c \in Callers : FlushReturns(c)) /\ UNCHANGED exceptFlush
    \/ RunFinalFlush /\ UNCHANGED exceptFlush
    \/ FinalLockGranted /\ UNCHANGED exceptFlush
    \/ (\E running \in SUBSET BufferNames : FlusherCancelled(running))
          /\ UNCHANGED exceptFlush
    \/ (\E n \in BufferNames, ok \in BOOLEAN : OrphanSaveRuns(n, ok))
          /\ UNCHANGED exceptFlush

(***************************************************************************)
(* Properties of the write buffers                                         *)
(***************************************************************************)
\* Caller c's _flush_buffer call returns in this step.
FlushReturned(c) == flush_returns'[c] # flush_returns[c]

\* The rows that were in buffer n when the call of c that returns in this
\* step emptied it.
RowsOfCall(c, n) == IF flush_pc[c] = "saving" THEN flush_copy[c][n] ELSE buffers[n]

\* C10: when a _flush_buffer call returns without a persistence error,
\* every buffer is empty and storage holds, exactly once, each row that was
\* in the buffer for that call.
C10_FlushEmptiesAndStores ==
    [][\A c \in Callers :
         (FlushReturned(c) /\ ~save_error'[c]) =>
            \A n \in BufferNames :
               /\ buffers'[n] = <<>>
               /\ \A r \in Rows(RowsOfCall(c, n)) : Occurrences(stored'[n], r) = 1]_vars

\* C10, amended: no row is ever stored twice or stored while still
\* buffered; when a _flush_buffer call returns without a persistence error,
\* none of the rows it took is left in the buffer, which holds only rows
\* appended after the copy; with skip_save off each row it took is in
\* storage exactly once, with skip_save on storage has received nothing.
C10_FlushStoresCopiedRows ==
    /\ [](\A n \in BufferNames : \A r \in Rows(stored[n]) :
             Occurrences(stored[n], r) = 1 /\ r \notin Rows(buffers[n]))
    /\ [][\A c \in Callers :
            (FlushReturned(c) /\ ~save_error'[c]) =>
               \A n \in BufferNames :
                  /\ Rows(buffers'[n]) \cap Rows(RowsOfCall(c, n)) = {}
                  /\ skip_save => stored'[n] = <<>>
                  /\ ~skip_save =>
                        \A r \in Rows(RowsOfCall(c, n)) : Occurrences(stored'[n], r) = 1]_vars

\* A flush whose save tasks have all persisted their rows is about to
\* return while a worker has appended to a buffer it had emptied.
C10_Witness ==
    /\ flush_pc["periodic"] = "saving"
    /\ save_pending["periodic"] = {}
    /\ ~save_error["periodic"]
    /\ \E n \in BufferNames :
          /\ flush_copy["periodic"][n] # <<>>
          /\ Rows(flush_copy["periodic"][n]) \subseteq Rows(stored[n])
          /\ buffers[n] # <<>>

\* Row r has been handed to self.db.save for buffer n: persisted, or in the
\* hands of a save task that is running in its thread.
TimesHanded(n, r) ==
    Occurrences(stored[n], r)
      + (IF n \in orphans THEN Occurrences(flush_copy["periodic"][n], r) ELSE 0)

\* C11: when run() has made its final flush and returns, saving being on
\* and no save having failed, every buffer is empty and every row appended
\* during the run has been handed to storage exactly once.
C11_NothingLostAtReturn ==
    (run_pc = "done" /\ ~skip_save /\ ~persist_failed) =>
        /\ \A n \in BufferNames : buffers[n] = <<>>
        /\ \A r \in 1..rows_made :
              Cardinality({n \in BufferNames : TimesHanded(n, r) = 1}) = 1
        /\ \A r \in 1..rows_made, n \in BufferNames : TimesHanded(n, r) <= 1

\* The save of caller c for buffer n fails in this step.
SaveFails(c, n) ==
    /\ n \in save_pending[c]
    /\ n \notin save_pending'[c]
    /\ flush_pc' = flush_pc
    /\ stored' = stored

\* The save for buffer n that outlived the cancelled flusher fails in this
\* step.
OrphanSaveFails(n) == n \in orphans /\ n \notin orphans' /\ stored' = stored

\* The rows that are in a buffer, in a table, or with a save task that has
\* yet to run.
RowsHeld ==
    UNION {Rows(buffers[n]) \cup Rows(stored[n]) : n \in BufferNames}
      \cup UNION {UNION {Rows(flush_copy[c][n]) : n \in save_pending[c]} : c \in Callers}
      \cup UNION {Rows(flush_copy["periodic"][n]) : n \in orphans}

\* The rows that were appended and are held nowhere.
LostRows == (1..rows_made) \ RowsHeld

RowLost(r) == r \in LostRows

Origins == {"https://a", "https://b"}

RobotsPaths == {"/x", "/y"}

CheckedUrls == [origin : Origins, path : RobotsPaths]

NoParser == [id |-> 0, read |-> FALSE, disallow |-> {}]

RobotsOutcomes == {"2xx", "non_2xx", "error"}

\* RobotFileParser.can_fetch: a parser on which neither read() nor parse()
\* was called answers False for every URL.
ParserCanFetch(parser, url) == parser.read /\ url.path \notin parser.disallow

\* The parser that _get_parser has after the GET: parse() is called on a
\* 2xx response only.
ParserAfter(id, outcome, rules) ==
    IF outcome = "2xx"
    THEN [id |-> id, read |-> TRUE, disallow |-> rules]
    ELSE [id |-> id, read |-> FALSE, disallow |-> {}]

\* self._parser_cache[base_url] = parser
CacheParserIfRead(cache, o, parser) ==
    IF parser.read THEN [cache EXCEPT ![o] = parser] ELSE cache

CacheParser(cache, o, parser) == [cache EXCEPT ![o] = parser]

NoLock == [made |-> FALSE, holder |-> NoTask, waiters |-> <<>>]

\* Exit of `async with self._fetch_locks[base_url]`: the lock goes to the
\* first task queued for it.
ReleasedLock(lock) ==
    [lock EXCEPT !.holder = IF lock.waiters = <<>> THEN NoTask ELSE Head(lock.waiters),
                 !.waiters = IF lock.waiters = <<>> THEN <<>> ELSE Tail(lock.waiters)]

\* can_fetch returns for caller c with the given parser.
RobotsReturn(c, url, parser) ==
    /\ rparser' = [rparser EXCEPT ![c] = parser]
    /\ rverdict' = [rverdict EXCEPT ![c] = ParserCanFetch(parser, url)]
    /\ rpc' = [rpc EXCEPT ![c] = "done"]

\* Caller c, holding the lock of origin o with nothing cached, sends the
\* GET for robots.txt.
RobotsGet(c, o) ==
    /\ robots_requests' = [robots_requests EXCEPT ![o] = @ + 1]
    /\ rpc' = [rpc EXCEPT ![c] = "get"]
    /\ UNCHANGED <<parser_cache, rverdict, rparser>>

\* A worker calls can_fetch(url): answered from the cache, or it takes the
\* origin's lock and sends the GET, or it queues for the lock.
RobotsCall(c, url) ==
    /\ rpc[c] \in {"idle", "done"}
    /\ ~rcancel[c]
    /\ rurl' = [rurl EXCEPT ![c] = url]
    /\ LET o == url.origin
           lock == fetch_locks[o]
       IN  IF parser_cache[o] # NoParser
           THEN /\ RobotsReturn(c, url, parser_cache[o])
                /\ UNCHANGED <<parser_cache, fetch_locks, robots_requests>>
           ELSE IF lock.holder = NoTask /\ lock.waiters = <<>>
           THEN /\ fetch_locks' = [fetch_locks EXCEPT ![o] =
                        [made |-> TRUE, holder |-> c, waiters |-> <<>>]]
                /\ RobotsGet(c, o)
           ELSE /\ fetch_locks' = [fetch_locks EXCEPT ![o].waiters = Append(@, c)]
                /\ rpc' = [rpc EXCEPT ![c] = "lock"]
                /\ UNCHANGED <<parser_cache, robots_requests, rverdict, rparser>>
    /\ UNCHANGED rcancel

\* The lock is handed to caller c, which checks the cache again.
RobotsLockGranted(c) ==
    /\ rpc[c] = "lock"
    /\ ~rcancel[c]
    /\ fetch_locks[rurl[c].origin].holder = c
    /\ LET o == rurl[c].origin
       IN  IF parser_cache[o] # NoParser
           THEN /\ RobotsReturn(c, rurl[c], parser_cache[o])
                /\ fetch_locks' = [fetch_locks EXCEPT ![o] = ReleasedLock(@)]
                /\ UNCHANGED <<parser_cache, robots_requests>>
           ELSE /\ RobotsGet(c, o)
                /\ UNCHANGED fetch_locks
    /\ UNCHANGED <<rurl, rcancel>>

\* The GET of caller c ends (response read, non-2xx status, or exception):
\* the parser is cached, the lock released, and can_fetch answers from it.
RobotsResponse(c, outcome, rules) ==
    /\ rpc[c] = "get"
    /\ ~rcancel[c]
    /\ LET o == rurl[c].origin
           parser == ParserAfter(robots_requests[o], outcome, rules)
       IN  /\ parser_cache' = CacheParser(parser_cache, o, parser)
           /\ fetch_locks' = [fetch_locks EXCEPT ![o] = ReleasedLock(@)]
           /\ RobotsReturn(c, rurl[c], parser)
    /\ UNCHANGED <<robots_requests, rurl, rcancel>>

\* run() cancels the pool: cancel() is called on every worker task.
RobotsCancelAll ==
    /\ \E c \in Workers : ~rcancel[c]
    /\ \E c \in Workers : rpc[c] \in {"lock", "get"}
    /\ rcancel' = [c \in Workers |-> TRUE]
    /\ UNCHANGED <<parser_cache, fetch_locks, robots_requests, rpc, rurl, rverdict,
                   rparser>>

\* CancelledError reaches caller c in the GET or in the lock's queue: it
\* caches nothing and gives up the lock or its place in the queue.
RobotsCancelled(c) ==
    /\ rcancel[c]
    /\ rpc[c] \in {"lock", "get"}
    /\ rpc' = [rpc EXCEPT ![c] = "cancelled"]
    /\ LET o == rurl[c].origin
       IN  fetch_locks' = [fetch_locks EXCEPT ![o] =
               IF @.holder = c THEN ReleasedLock(@)
               ELSE [@ EXCEPT !.waiters = RemoveFrom(@, c)]]
    /\ UNCHANGED <<parser_cache, robots_requests, rurl, rverdict, rparser, rcancel>>

InitRobots ==
    /\ parser_cache = [o \in Origins |-> NoParser]
    /\ fetch_locks = [o \in Origins |-> NoLock]
    /\ robots_requests = [o \in Origins |-> 0]
    /\ rpc = [c \in Workers |-> "idle"]
    /\ rurl = [c \in Workers |-> [origin |-> "https://a", path |-> "/x"]]
    /\ rverdict = [c \in Workers |-> FALSE]
    /\ rparser = [c \in Workers |-> NoParser]
    /\ rcancel = [c \in Workers |-> FALSE]

RobotsOff ==
    /\ parser_cache = [o \in Origins |-> NoParser]
    /\ fetch_locks = [o \in Origins |-> NoLock]
    /\ robots_requests = [o \in Origins |-> 0]
    /\ rpc = [c \in Workers |-> "idle"]
    /\ rurl = [c \in Workers |-> [origin |-> "https://a", path |-> "/x"]]
    /\ rverdict = [c \in Workers |-> FALSE]
    /\ rparser = [c \in Workers |-> NoParser]
    /\ rcancel = [c \in Workers |-> FALSE]

NextRobots ==
    \/ (\E c \in Workers, url \in CheckedUrls : RobotsCall(c, url)) /\ UNCHANGED exceptRobots
    \/ (\E c \in Workers : RobotsLockGranted(c)) /\ UNCHANGED exceptRobots
    \/ (\E c \in Workers, outcome \in RobotsOutcomes, rules \in SUBSET RobotsPaths :
            RobotsResponse(c, outcome, rules)) /\ UNCHANGED exceptRobots
    \/ RobotsCancelAll /\ UNCHANGED exceptRobots
    \/ (\E c \in Workers : RobotsCancelled(c)) /\ UNCHANGED exceptRobots

(***************************************************************************)
(* Properties of the robots.txt cache                                      *)
(***************************************************************************)
\* C12: when the robots.txt fetch of an origin fails or returns a non-2xx
\* status, so that the cached parser was never given a file, can_fetch
\* answers true for every URL of that origin.
C12_FailsOpen ==
    \A c \in Workers :
        (rpc[c] = "done" /\ ~rparser[c].read) => rverdict[c]

\* C13: robots.txt of an origin is requested at most once, also when the
\* request fails, and every caller is answered from the one cached parser.
C13_FetchedOnce ==
    \A o \in Origins :
        /\ robots_requests[o] <= 1
        /\ parser_cache[o] # NoParser => parser_cache[o].id = 1
        /\ \A c \in Workers :
              (rpc[c] = "done" /\ rurl[c].origin = o) => rparser[c] = parser_cache[o]

\* After a failed fetch, a caller that had queued behind the origin's lock
\* is handed the lock and finds the cached parser.
C13_Witness ==
    \E o \in Origins, c \in Workers :
        /\ rpc[c] = "lock"
        /\ rurl[c].origin = o
        /\ fetch_locks[o].holder = c
        /\ parser_cache[o] # NoParser
        /\ ~parser_cache[o].read
        /\ robots_requests[o] = 1

(***************************************************************************)
(* PropagationGraph of the status propagator service: propagate_statuses   *)
(* on the graph that run() has built with add_link and set_status.         *)
(*                                                                         *)
(* A URL is a number.  `statuses` is a dict: status_keys holds its keys in *)
(* insertion order.  One step of the model is one iteration of the while   *)
(* loop; the for loop visits the targets, a set, in some order.            *)
(***************************************************************************)
SeedStatuses == {0, 200, 500}
IterationSlack == 1000

Range(s) == {s[i] : i \in DOMAIN s}

\* The orders in which a set can be listed.
Orders(S) ==
    {s \in [1..Cardinality(S) -> S] : \A i, j \in DOMAIN s : i # j => s[i] # s[j]}

\* statuses.get(url, 0)
StatusOf(st, url) == IF url \in DOMAIN st THEN st[url] ELSE 0

\* statuses[url] = status
StatusSet(st, url, status) ==
    [u \in DOMAIN st \cup {url} |-> IF u = url THEN status ELSE st[u]]

\* The adjacency dict after add_link(source, target) for every link.
GraphOf(edges) ==
    [u \in {e[1] : e \in edges} |-> {e[2] : e \in {x \in edges : x[1] = u}}]

\* graph.get(url, set())
TargetsOf(g, url) == IF url \in DOMAIN g THEN g[url] ELSE {}

max_iterations(g) == Cardinality(DOMAIN g) * 2 + IterationSlack

\* The for loop over the targets of the current URL, taken in the order ord.
RECURSIVE VisitTargets(_, _, _, _, _, _)
VisitTargets(ord, current_status, st, keys, q, inq) ==
    IF ord = <<>>
    THEN [statuses |-> st, status_keys |-> keys, queue |-> q, in_queue |-> inq]
    ELSE LET target_url == Head(ord)
             raised == current_status > StatusOf(st, target_url)
             queued == raised /\ target_url \notin inq
         IN  VisitTargets(Tail(ord), current_status,
                 IF raised THEN StatusSet(st, target_url, current_status) ELSE st,
                 IF raised /\ target_url \notin DOMAIN st
                     THEN Append(keys, target_url) ELSE keys,
                 IF queued THEN Append(q, target_url) ELSE q,
                 IF queued THEN inq \cup {target_url} ELSE inq)

SeededFirst(keys, st) == SelectSeq(keys, LAMBDA u : st[u] > 0)

\* The condition of the while loop.
LoopGoesOn == prop_queue # <<>> /\ iterations < max_iterations(graph)

\* propagate_statuses is called, for the first time or again on the statuses
\* that the call before has left.
PropagateStart ==
    /\ prop_pc \in {"built", "returned"}
    /\ prop_runs < MaxRuns
    /\ prop_queue' = SeededFirst(status_keys, statuses)
    /\ in_queue' = Range(SeededFirst(status_keys, statuses))
    /\ iterations' = 0
    /\ prop_pc' = "loop"
    /\ UNCHANGED <<graph, seed, statuses, status_keys, prop_runs, first_statuses>>

\* One iteration of the while loop: it pops a URL and, unless its status is
\* 0, visits its targets in the order ord.
PropagateIteration(ord) ==
    /\ prop_pc = "loop"
    /\ LoopGoesOn
    /\ ord \in Orders(TargetsOf(graph, Head(prop_queue)))
    /\ LET current_url == Head(prop_queue)
           current_status == StatusOf(statuses, current_url)
           after == VisitTargets(IF current_status = 0 THEN <<>> ELSE ord,
                                 current_status, statuses, status_keys,
                                 Tail(prop_queue), in_queue \ {current_url})
       IN  /\ statuses' = after.statuses
           /\ status_keys' = after.status_keys
           /\ prop_queue' = after.queue
           /\ in_queue' = after.in_queue
    /\ iterations' = iterations + 1
    /\ UNCHANGED <<graph, seed, prop_pc, prop_runs, first_statuses>>

\* The while loop ends and propagate_statuses returns.
PropagateReturns ==
    /\ prop_pc = "loop"
    /\ ~LoopGoesOn
    /\ prop_pc' = "returned"
    /\ prop_runs' = prop_runs + 1
    /\ first_statuses' = IF prop_runs = 0 THEN statuses ELSE first_statuses
    /\ UNCHANGED <<graph, seed, statuses, status_keys, prop_queue, in_queue,
                   iterations>>

\* Every graph of at most max_edges links over the URLs 1..n (self links
\* and cycles included), with a status set for some of the URLs in some
\* order.
SmallInputs(n, max_edges) ==
    UNION {{[links |-> l, rows |-> r, seed |-> s] :
               l \in {e \in SUBSET ((1..n) \X (1..n)) : Cardinality(e) <= max_edges},
               s \in [Range(r) -> SeedStatuses]} :
           r \in UNION {Orders(S) : S \in SUBSET (1..n)}}

\* A chain 1 -> 2 -> ... -> n whose statuses fall along the chain and were
\* set from the far end: each pass over the chain moves every status one
\* link further.
ChainInput(n) ==
    [links |-> {<<i, i + 1>> : i \in 1..(n - 1)},
     rows |-> [i \in 1..n |-> n + 1 - i],
     seed |-> [i \in 1..n |-> 200 + (n - i)]]

ChainInputs == {ChainInput(ChainLen - 1), ChainInput(ChainLen)}

InitPropagate ==
    \E input \in SmallInputs(MaxNodes, MaxEdges) \cup ChainInputs :
        /\ graph = GraphOf(input.links)
        /\ seed = input.seed
        /\ statuses = input.seed
        /\ status_keys = input.rows
        /\ prop_queue = <<>>
        /\ in_queue = {}
        /\ iterations = 0
        /\ prop_pc = "built"
        /\ prop_runs = 0
        /\ first_statuses = <<>>

PropagateOff ==
    /\ graph = <<>>
    /\ seed = <<>>
    /\ statuses = <<>>
    /\ status_keys = <<>>
    /\ prop_queue = <<>>
    /\ in_queue = {}
    /\ iterations = 0
    /\ prop_pc = "built"
    /\ prop_runs = 0
    /\ first_statuses = <<>>

\* The orders in which the for loop may visit the targets of the next URL.
TargetOrders ==
    IF prop_queue = <<>> THEN {} ELSE Orders(TargetsOf(graph, Head(prop_queue)))

NextPropagate ==
    \/ PropagateStart /\ UNCHANGED exceptPropagate
    \/ \E ord \in TargetOrders : PropagateIteration(ord) /\ UNCHANGED exceptPropagate
    \/ PropagateReturns /\ UNCHANGED exceptPropagate

(***************************************************************************)
(* Properties of the status propagation                                    *)
(***************************************************************************)
PropNodes == DOMAIN graph \cup UNION {graph[u] : u \in DOMAIN graph} \cup DOMAIN seed

\* The URLs that can be reached from the URLs of S, those of S included.
RECURSIVE ReachedFrom(_)
ReachedFrom(S) ==
    LET more == S \cup UNION {TargetsOf(graph, u) : u \in S}
    IN  IF more = S THEN S ELSE ReachedFrom(more)

MaxOf(S) == CHOOSE m \in S : \A x \in S : x <= m

WorstReaching(v) ==
    MaxOf({StatusOf(seed, u) : u \in {x \in PropNodes : v \in ReachedFrom({x})}})

\* C14: when propagate_statuses has returned, the status of every URL is the
\* highest seed status among the URLs from which it can be reached, itself
\* included.
C14_WorstStatusReaches ==
    (prop_pc = "returned" /\ prop_runs = 1) =>
        \A v \in PropNodes : StatusOf(statuses, v) = WorstReaching(v)

\* C15: a second call of propagate_statuses, on the graph and the statuses
\* that the first call has left, changes no status.
C15_SecondRunChangesNothing ==
    prop_runs >= 1 => statuses = first_statuses

\* C16: when propagate_statuses has returned, every link whose source has a
\* positive status leads to a URL whose status is at least as high, and no
\* URL has a status below its seed status.
C16_EdgesMonotone ==
    prop_pc = "returned" =>
        /\ \A u \in DOMAIN graph : \A v \in graph[u] :
              StatusOf(statuses, u) > 0 => StatusOf(statuses, v) >= StatusOf(statuses, u)
        /\ \A u \in PropNodes : StatusOf(statuses, u) >= StatusOf(seed, u)

(***************************************************************************)
(* ExecuteEngine.execute_sequence: a parsed command line, run from left to *)
(* right.                                                                  *)
(*                                                                         *)
(* A command is the kind of its name (a registered or external command,    *)
(* or the @{name} shorthand) and the operator that stands before it; ";"   *)
(* is, like None, none of the operators the loop looks at.  The exit code  *)
(* of a command is an input of the step that runs it.                      *)
(***************************************************************************)
Ops == {"none", "&&", "||", "|"}

CommandKinds == {"command", "variable"}

Interrupted == 130

ExitCodes == {0, 1, Interrupted}

CommandLines ==
    UNION {[1..n -> [kind : CommandKinds, op : Ops]] : n \in 0..MaxCmds}

\* while i < n and commands[i][2] == "|": i += 1
RECURSIVE SkipPipe(_, _)
SkipPipe(cmds, p) ==
    IF p <= Len(cmds) /\ cmds[p].op = "|" THEN SkipPipe(cmds, p + 1) ELSE p

\* The two tests at the top of the while loop.
SkippedAndOnly(op, code) == op = "&&" /\ code # 0

Skipped(op, code) == (op = "&&" /\ code # 0) \/ (op = "||" /\ code = 0)

InitXngine ==
    /\ commands \in CommandLines
    /\ last_exit = 0
    /\ seq_i = 1
    /\ seg_j = 1
    /\ seg_k = 1
    /\ xpc = "top"
    /\ ran = <<>>
    /\ exit_returned = 0

XngineOff ==
    /\ commands = <<>>
    /\ last_exit = 0
    /\ seq_i = 1
    /\ seg_j = 1
    /\ seg_k = 1
    /\ xpc = "top"
    /\ ran = <<>>
    /\ exit_returned = 0

\* The operator before commands[i] and last_exit say that it is passed
\* over, and with it the commands piped to it.
SkipCommand ==
    /\ xpc = "top"
    /\ seq_i <= Len(commands)
    /\ Skipped(commands[seq_i].op, last_exit)
    /\ seq_i' = SkipPipe(commands, seq_i + 1)
    /\ UNCHANGED <<commands, last_exit, seg_j, seg_k, xpc, ran, exit_returned>>

\* The segment that starts at commands[i] is collected.
EnterSegment ==
    /\ xpc = "top"
    /\ seq_i <= Len(commands)
    /\ ~Skipped(commands[seq_i].op, last_exit)
    /\ seg_j' = SkipPipe(commands, seq_i + 1)
    /\ seg_k' = seq_i
    /\ xpc' = "segment"
    /\ UNCHANGED <<commands, last_exit, seq_i, ran, exit_returned>>

\* One pass of the loop over the segment: the command runs and gives
\* `code`; the @{name} shorthand prints the variable and counts as 0.
RunCommand(code) ==
    /\ xpc = "segment"
    /\ LET is_last == seg_k = seg_j - 1
           shorthand == commands[seg_k].kind = "variable"
           exit_code == IF shorthand THEN 0 ELSE code
       IN /\ shorthand => code = 0
          /\ ran' = Append(ran, [idx |-> seg_k, code |-> exit_code])
          /\ last_exit' = exit_code
          /\ IF ~shorthand /\ exit_code = Interrupted
             THEN /\ xpc' = "returned"
                  /\ exit_returned' = Interrupted
                  /\ UNCHANGED <<seq_i, seg_k>>
             ELSE IF is_last \/ (~shorthand /\ exit_code # 0)
             THEN /\ seq_i' = seg_j
                  /\ xpc' = "top"
                  /\ UNCHANGED <<seg_k, exit_returned>>
             ELSE /\ seg_k' = seg_k + 1
                  /\ UNCHANGED <<seq_i, xpc, exit_returned>>
    /\ UNCHANGED <<commands, seg_j>>

\* The while loop ends (for an empty list it never starts): return
\* last_exit.
ReturnLastExit ==
    /\ xpc = "top"
    /\ seq_i > Len(commands)
    /\ xpc' = "returned"
    /\ exit_returned' = last_exit
    /\ UNCHANGED <<commands, last_exit, seq_i, seg_j, seg_k, ran>>

NextXngine ==
    \/ SkipCommand /\ UNCHANGED exceptXngine
    \/ EnterSegment /\ UNCHANGED exceptXngine
    \/ (\E code \in ExitCodes : RunCommand(code)) /\ UNCHANGED exceptXngine
    \/ ReturnLastExit /\ UNCHANGED exceptXngine

(***************************************************************************)
(* Properties of execute_sequence                                          *)
(***************************************************************************)
\* The exit code of the command that ran last, 0 when none has run.
LastRanCode == IF ran = <<>> THEN 0 ELSE ran[Len(ran)].code

\* commands[idx] runs in this step.
RunsNow(idx) == Len(ran') = Len(ran) + 1 /\ ran'[Len(ran')].idx = idx

HasRun(idx) == \E p \in 1..Len(ran) : ran[p].idx = idx

\* C25: a command that has && before it runs only when the command that
\* ran last gave 0, and one that has || before it only when that command
\* gave another code; a step that runs no command leaves last_exit as it
\* is, so that last_exit is always the code of the command that ran last
\* (0 before the first); and execute_sequence returns that code.
C25_OperatorsGateCommands ==
    /\ [][\A idx \in 1..Len(commands) :
            RunsNow(idx) =>
               /\ commands[idx].op = "&&" => LastRanCode = 0
               /\ commands[idx].op = "||" => LastRanCode # 0]_vars
    /\ [][ran' = ran => last_exit' = last_exit]_vars
    /\ [](last_exit = LastRanCode)
    /\ [](xpc = "returned" => exit_returned = LastRanCode)

\* A command line of which a command after && was passed over, a later
\* command after || ran, and execute_sequence has returned.
C25_Witness ==
    /\ xpc = "returned"
    /\ \E idx \in 1..Len(commands) :
          /\ commands[idx].op = "&&"
          /\ ~HasRun(idx)
          /\ \E later \in (idx + 1)..Len(commands) :
                commands[later].op = "||" /\ HasRun(later)

(***************************************************************************)
(* fetch_page / _execute_get on a URL that redirects, and the loop of      *)
(* follow_redirects / _follow_redirects.  The server's answers are fixed   *)
(* per URL, the same for GET and HEAD: a redirect with or without a        *)
(* Location header, a 200, a 404, or no answer at all (the request raises  *)
(* a client error or times out).  The 429 answer and the wait for the      *)
(* breaker are part of SpecFetch.                                          *)
(***************************************************************************)
ChainUrls == 1..NChainUrls

\* urljoin(current_url, location) when the answer has no Location header.
NoLocation == 0

\* The URL that is fetched.
InitialUrl == 1

RedirectStatuses == {301, 302, 303, 307, 308}

Services == {"PageFetcher", "HttpRequestService"}

\* session.get / session.head raised ClientError or TimeoutError.
Raised == [status |-> 0, location |-> NoLocation]

Answers ==
    {[status |-> 301, location |-> l] : l \in ChainUrls \cup {NoLocation}}
      \cup {[status |-> 200, location |-> NoLocation],
            [status |-> 404, location |-> NoLocation], Raised}

\* The entries of redirect_chain, in one shape: a hop {source, target,
\* status}, and the entries {error, url} and {final_url, status}, whose URL
\* is kept in source.
Hop(src, tgt, st) == [kind |-> "hop", source |-> src, target |-> tgt, status |-> st]

LoopEntry(url) == [kind |-> "loop", source |-> url, target |-> NoLocation, status |-> 0]

ErrorEntry(url) == [kind |-> "error", source |-> url, target |-> NoLocation, status |-> 0]

FinalEntry(url, st) == [kind |-> "final", source |-> url, target |-> NoLocation, status |-> st]

InitChain ==
    /\ service \in Services
    /\ chain_site \in [ChainUrls -> Answers]
    /\ max_redirects \in 0..MaxRedirects
    /\ chain_pc = "get"
    /\ redirect_chain = <<>>
    /\ chain_visited = {}
    /\ chain_url = InitialUrl
    /\ passes = 0
    /\ head_status = 0
    /\ result_status = 0

ChainOff ==
    /\ service = "PageFetcher"
    /\ chain_site = [u \in ChainUrls |-> Raised]
    /\ max_redirects = 0
    /\ chain_pc = "off"
    /\ redirect_chain = <<>>
    /\ chain_visited = {}
    /\ chain_url = InitialUrl
    /\ passes = 0
    /\ head_status = 0
    /\ result_status = 0

\* The GET is answered.  A redirect status starts follow_redirects on the
\* URL, which sets up visited and current_url; any other answer is the
\* result (-1 for a request that raised).
ChainGet ==
    /\ chain_pc = "get"
    /\ LET r == chain_site[InitialUrl] IN
         /\ result_status' = IF r = Raised THEN -1 ELSE r.status
         /\ IF r.status \in RedirectStatuses
               THEN /\ chain_pc' = "loop"
                    /\ chain_visited' = {InitialUrl}
               ELSE /\ chain_pc' = "done"
                    /\ UNCHANGED chain_visited
    /\ UNCHANGED <<service, chain_site, max_redirects, redirect_chain, chain_url,
                   passes, head_status>>

\* Variant with a plausible slip: the loop test looks at the URL just left
\* only.
SeenBeforeSelfOnly(next_url) == next_url = chain_url

\* if next_url in visited
SeenBefore(next_url) == next_url \in chain_visited

\* One pass of the for loop: a HEAD request to current_url and the handling
\* of its answer.
ChainPass ==
    /\ chain_pc = "loop"
    /\ passes < max_redirects
    /\ passes' = passes + 1
    /\ LET r == chain_site[chain_url] IN
         IF r = Raised
            THEN /\ redirect_chain' = Append(redirect_chain, ErrorEntry(chain_url))
                 /\ chain_pc' = "return"
                 /\ UNCHANGED <<chain_visited, chain_url, head_status>>
            ELSE /\ head_status' = r.status
                 /\ IF r.status \in RedirectStatuses /\ r.location # NoLocation
                       THEN IF SeenBefore(r.location)
                               THEN /\ redirect_chain' =
                                          redirect_chain \o
                                            <<Hop(chain_url, r.location, r.status),
                                              LoopEntry(r.location)>>
                                    /\ chain_pc' = "return"
                                    /\ UNCHANGED <<chain_visited, chain_url>>
                               ELSE /\ redirect_chain' =
                                          Append(redirect_chain,
                                                 Hop(chain_url, r.location, r.status))
                                    /\ chain_visited' = chain_visited \cup {r.location}
                                    /\ chain_url' = r.location
                                    /\ UNCHANGED chain_pc
                       ELSE /\ redirect_chain' =
                                  IF service = "HttpRequestService"
                                     THEN Append(redirect_chain,
                                                 FinalEntry(chain_url, r.status))
                                     ELSE redirect_chain
                            /\ chain_pc' = "return"
                            /\ UNCHANGED <<chain_visited, chain_url>>
    /\ UNCHANGED <<service, chain_site, max_redirects, result_status>>

\* redirect_chain[-1].get('status', status)
LastStatusOr(chain, default) ==
    IF chain # <<>> /\ chain[Len(chain)].kind \in {"hop", "final"}
       THEN chain[Len(chain)].status
       ELSE default

\* The loop has ended, by a break or after max_redirects passes, and the
\* caller builds its result: fetch_page keeps the status of the GET,
\* _execute_get takes the status of the last entry of the chain.
ChainReturn ==
    /\ \/ chain_pc = "return"
       \/ chain_pc = "loop" /\ passes >= max_redirects
    /\ chain_pc' = "done"
    /\ result_status' = IF service = "HttpRequestService"
                    THEN LastStatusOr(redirect_chain, result_status)
                    ELSE result_status
    /\ UNCHANGED <<service, chain_site, max_redirects, redirect_chain, chain_visited,
                   chain_url, passes, head_status>>

NextChain ==
    \/ ChainGet /\ UNCHANGED exceptChain
    \/ ChainPass /\ UNCHANGED exceptChain
    \/ ChainReturn /\ UNCHANGED exceptChain

\* Every request is made with a total timeout, so each GET and HEAD ends,
\* and the event loop runs the task again.
ChainFairness == WF_vars(NextChain)

\* The hops of a chain, the URLs the chain has been at, and whether it
\* holds a redirect-loop entry.
HopCount(chain) == Cardinality({i \in DOMAIN chain : chain[i].kind = "hop"})

SeenUrls(chain) ==
    {InitialUrl} \cup {chain[i].target : i \in {j \in DOMAIN chain : chain[j].kind = "hop"}}

HasLoopEntry(chain) == \E i \in DOMAIN chain : chain[i].kind = "loop"

\* The status at the end of the chain: that of the last HEAD answered, or
\* of the GET when no HEAD was answered.
FinalStatus == IF head_status # 0 THEN head_status ELSE chain_site[InitialUrl].status

EndedInError ==
    redirect_chain # <<>> /\ redirect_chain[Len(redirect_chain)].kind = "error"

\* C36: when the GET of a URL is answered with a redirect status and no
\* request of the chain fails, the result holds the status reached at the
\* end of the chain, as its status or in the last entry of its chain.
C36_FinalStatusRecorded ==
    (/\ chain_pc = "done"
     /\ chain_site[InitialUrl].status \in RedirectStatuses
     /\ ~EndedInError)
       => \/ result_status = FinalStatus
          \/ /\ redirect_chain # <<>>
             /\ redirect_chain[Len(redirect_chain)].status = FinalStatus

\* C37: following redirects ends on every site; at most max_redirects HEAD
\* requests are sent and the chain gets at most max_redirects hops; while
\* the loop goes on no URL was reached twice; a redirect to a URL the chain
\* has been at ends the loop with a redirect-loop entry after its hop, and
\* no other answer gives such an entry.
C37_RedirectsEnd ==
    /\ <>(chain_pc = "done")
    /\ [](passes <= max_redirects /\ HopCount(redirect_chain) <= max_redirects)
    /\ [](chain_pc = "loop" =>
            /\ chain_visited = SeenUrls(redirect_chain)
            /\ Cardinality(chain_visited) = Len(redirect_chain) + 1)
    /\ [][(/\ passes' = passes + 1
           /\ chain_site[chain_url].status \in RedirectStatuses
           /\ chain_site[chain_url].location \in SeenUrls(redirect_chain))
             => /\ chain_pc' = "return"
                /\ redirect_chain' =
                     redirect_chain \o
                       <<Hop(chain_url, chain_site[chain_url].location,
                             chain_site[chain_url].status),
                         LoopEntry(chain_site[chain_url].location)>>]_vars
    /\ [][(~HasLoopEntry(redirect_chain) /\ HasLoopEntry(redirect_chain'))
             => chain_site[chain_url].location \in SeenUrls(redirect_chain)]_vars

\* A cycle over two URLs was followed and cut at its second hop.
C37_Witness ==
    /\ chain_pc = "done"
    /\ HasLoopEntry(redirect_chain)
    /\ passes = 2
    /\ max_redirects > 2

(***************************************************************************)
(* RequestToLinkStatusPropagatorService.run, step 3: the statuses of the   *)
(* graph are set from the rows of the request log and then from the rows   *)
(* of the page table.  The links were loaded and are not empty.            *)
(***************************************************************************)
SeedUrls == 1..NSeedUrls

\* status_code of a row: a transport failure, or an HTTP status.
RowStatuses == {-1, 200, 404}

SeedRows == [url : SeedUrls, status_code : RowStatuses]

RECURSIVE SeqsUpTo(_, _)
SeqsUpTo(S, n) ==
    IF n = 0 THEN {<<>>}
    ELSE LET shorter == SeqsUpTo(S, n - 1)
         IN  shorter \cup {Append(q, x) : q \in shorter, x \in S}

\* df.drop_duplicates(subset=['url'], keep='last')
RECURSIVE DropDuplicates(_)
DropDuplicates(rows) ==
    IF rows = <<>> THEN <<>>
    ELSE IF \E j \in 2..Len(rows) : rows[j].url = Head(rows).url
            THEN DropDuplicates(Tail(rows))
            ELSE <<Head(rows)>> \o DropDuplicates(Tail(rows))

\* set_status(url, status): the dict and the order of its keys afterwards.
SetStatus(st, keys, url, status) ==
    IF status <= 0
       THEN IF url \notin DOMAIN st
               THEN [statuses |-> StatusSet(st, url, 0), status_keys |-> Append(keys, url)]
               ELSE [statuses |-> st, status_keys |-> keys]
       ELSE IF status > StatusOf(st, url)
               THEN [statuses |-> StatusSet(st, url, status),
                     status_keys |-> IF url \in DOMAIN st THEN keys ELSE Append(keys, url)]
               ELSE [statuses |-> st, status_keys |-> keys]

\* set_status for every row, in the order of the rows.
RECURSIVE SetAll(_, _, _)
SetAll(st, keys, rows) ==
    IF rows = <<>> THEN [statuses |-> st, status_keys |-> keys]
    ELSE LET after == SetStatus(st, keys, Head(rows).url, Head(rows).status_code)
         IN  SetAll(after.statuses, after.status_keys, Tail(rows))

InitSeed ==
    /\ requests_df \in SeqsUpTo(SeedRows, MaxSeedRows)
    /\ pages_df \in SeqsUpTo(SeedRows, MaxSeedRows)
    /\ seed_pc = "loaded"
    /\ graph = GraphOf({<<1, 1>>})
    /\ seed = <<>>
    /\ statuses = <<>>
    /\ status_keys = <<>>
    /\ prop_queue = <<>>
    /\ in_queue = {}
    /\ iterations = 0
    /\ prop_pc = "built"
    /\ prop_runs = 0
    /\ first_statuses = <<>>

SeedOff ==
    /\ requests_df = <<>>
    /\ pages_df = <<>>
    /\ seed_pc = "off"

\* "From Requests": the loop over the rows of the request log.
SeedFromRequests ==
    /\ seed_pc = "loaded"
    /\ LET after == SetAll(statuses, status_keys, DropDuplicates(requests_df)) IN
         /\ statuses' = after.statuses
         /\ status_keys' = after.status_keys
    /\ seed_pc' = "requests"
    /\ UNCHANGED <<requests_df, pages_df, graph, seed, prop_queue, in_queue, iterations,
                   prop_pc, prop_runs, first_statuses>>

\* "From Pages (fallback)": the loop over the rows of the page table; the
\* statuses are now what propagate_statuses starts from.
SeedFromPages ==
    /\ seed_pc = "requests"
    /\ LET after == SetAll(statuses, status_keys, DropDuplicates(pages_df)) IN
         /\ statuses' = after.statuses
         /\ status_keys' = after.status_keys
         /\ seed' = after.statuses
    /\ seed_pc' = "seeded"
    /\ UNCHANGED <<requests_df, pages_df, graph, prop_queue, in_queue, iterations,
                   prop_pc, prop_runs, first_statuses>>

NextSeed ==
    \/ SeedFromRequests /\ UNCHANGED exceptSeed
    \/ SeedFromPages /\ UNCHANGED exceptSeed

\* The URLs of a table, and the status the table has for a URL: that of its
\* last row, 0 standing for every status that is not a positive number.
UrlsOf(rows) == {rows[i].url : i \in DOMAIN rows}

TableStatus(rows, url) ==
    LET last == CHOOSE i \in DOMAIN rows :
                   /\ rows[i].url = url
                   /\ \A j \in DOMAIN rows : rows[j].url = url => j <= i
    IN  IF rows[last].status_code <= 0 THEN 0 ELSE rows[last].status_code

\* C35: once the statuses are seeded, a URL of the request log has the
\* status of the request log, whatever the page table holds for it, and a
\* URL that is in the page table only has the status of the page table.
C35_RequestLogWins ==
    seed_pc = "seeded" =>
        /\ \A u \in UrlsOf(requests_df) :
              StatusOf(statuses, u) = TableStatus(requests_df, u)
        /\ \A u \in UrlsOf(pages_df) \ UrlsOf(requests_df) :
              StatusOf(statuses, u) = TableStatus(pages_df, u)

(***************************************************************************)
(* How the loop of propagate_statuses ends                                 *)
(***************************************************************************)
\* The URLs that an iteration appends to the queue.
Enqueued == Range(prop_queue') \ Range(Tail(prop_queue))

\* C39: the loop of propagate_statuses ends with an empty queue, on every
\* graph; an iteration appends a URL to the queue only when it has raised
\* the status of that URL; and no status exceeds the largest seed status.
C39_WorklistEmpties ==
    /\ [](prop_pc = "returned" => prop_queue = <<>>)
    /\ [][(prop_pc = "loop" /\ iterations' = iterations + 1) =>
             \A u \in Enqueued : StatusOf(statuses', u) > StatusOf(statuses, u)]_vars
    /\ [](\A u \in DOMAIN statuses :
             seed # <<>> /\ statuses[u] <= MaxOf(Range(seed)))

(***************************************************************************)
(* Specifications                                                          *)
(***************************************************************************)
\* Each specification runs one part of the crawler and holds the variables
\* of the other parts at their values after construction.
FetchServiceInit ==
    InitFetch /\ PoolOff /\ CrawlOff /\ FlushOff /\ RobotsOff /\ PropagateOff
      /\ XngineOff /\ PauseOff /\ ChainOff /\ SeedOff

SpecFetch == FetchServiceInit /\ [][NextFetch]_vars

\* The gate under contention: hard caps of 1 and 2, where callers wait for
\* slots, and a breaker that opens at the first 429.
FetchLiveInit ==
    FetchServiceInit /\ max_concurrency_cap <= 2 /\ threshold_429 = 1

SpecPage == FetchLiveInit /\ [][NextPage]_vars

SpecRedirect == FetchLiveInit /\ [][NextRedirect]_vars

SpecFetchLive == FetchLiveInit /\ [][NextFetchLive]_vars /\ FetchFairness

BackoffInit ==
    InitFetchAnyBackoff /\ PoolOff /\ CrawlOff /\ FlushOff /\ RobotsOff /\ PropagateOff
      /\ XngineOff /\ PauseOff /\ ChainOff /\ SeedOff /\ max_concurrency_cap <= 2 /\ threshold_429 = 1

SpecBackoff == BackoffInit /\ [][NextFetch]_vars

PoolInit ==
    InitPool /\ FetchOff /\ CrawlOff /\ FlushOff /\ RobotsOff /\ PropagateOff
      /\ XngineOff /\ PauseOff /\ ChainOff /\ SeedOff

SpecPool == PoolInit /\ [][NextPool]_vars

SpecPause == PoolInit /\ [][NextPause]_vars /\ PauseFairness

CrawlInit ==
    InitCrawl /\ FetchOff /\ FlushOff /\ RobotsOff /\ PropagateOff
      /\ XngineOff /\ PauseOff /\ ChainOff /\ SeedOff

SpecCrawl == CrawlInit /\ [][NextCrawl]_vars

CrawlLiveInit ==
    InitCrawlAnyCap /\ FetchOff /\ FlushOff /\ RobotsOff /\ PropagateOff
      /\ XngineOff /\ PauseOff /\ ChainOff /\ SeedOff

SpecCrawlLive == CrawlLiveInit /\ [][NextCrawl]_vars /\ CrawlFairness

LinksInit ==
    InitLinks /\ FetchOff /\ FlushOff /\ RobotsOff /\ PropagateOff
      /\ XngineOff /\ PauseOff /\ ChainOff /\ SeedOff

SpecLinks == LinksInit /\ [][NextLinks]_vars

FlushInit ==
    InitFlush /\ FetchOff /\ CrawlOff /\ RobotsOff /\ PropagateOff
      /\ XngineOff /\ PauseOff /\ ChainOff /\ SeedOff

SpecFlush == FlushInit /\ [][NextFlush]_vars

RobotsInit ==
    InitRobots /\ FetchOff /\ PoolOff /\ CrawlOff /\ FlushOff /\ PropagateOff
      /\ XngineOff /\ PauseOff /\ ChainOff /\ SeedOff

SpecRobots == RobotsInit /\ [][NextRobots]_vars

PropagateInit ==
    InitPropagate /\ FetchOff /\ PoolOff /\ CrawlOff /\ FlushOff /\ RobotsOff
      /\ XngineOff /\ PauseOff /\ ChainOff /\ SeedOff

SpecPropagate == PropagateInit /\ [][NextPropagate]_vars

XngineInit ==
    InitXngine /\ FetchOff /\ PoolOff /\ CrawlOff /\ FlushOff /\ RobotsOff
      /\ PropagateOff /\ PauseOff /\ ChainOff /\ SeedOff

SpecXngine == XngineInit /\ [][NextXngine]_vars

ChainInit ==
    InitChain /\ FetchOff /\ PoolOff /\ CrawlOff /\ FlushOff /\ RobotsOff
      /\ PropagateOff /\ XngineOff /\ PauseOff /\ SeedOff

SpecChain == ChainInit /\ [][NextChain]_vars /\ ChainFairness

SeedInit ==
    InitSeed /\ FetchOff /\ PoolOff /\ CrawlOff /\ FlushOff /\ RobotsOff
      /\ XngineOff /\ PauseOff /\ ChainOff

SpecSeed == SeedInit /\ [][NextSeed]_vars

=============================================================================
